---- MODULE Spec2Model ----
(***************************************************************************)
(* bean-lens normalization engine (src/src/bean_lens/normalization).       *)
(*                                                                         *)
(* A string is a sequence of one-character strings.  A float in [0, 1] is  *)
(* kept in hundredths (0.98 is 98); a similarity ratio is kept exact, as   *)
(* the pair <<numerator, denominator>>.  An optional value is None (the    *)
(* empty sequence) or Some(x) (the one-element sequence).                  *)
(***************************************************************************)
EXTENDS Integers, Sequences, FiniteSets, TLC

VARIABLES terms, aliases, config, term_index, calls, last, queue_file, history, writers,
          engine, provider

vars ==
  <<terms, aliases, config, term_index, calls, last, queue_file, history, writers, engine,
    provider>>

None == <<>>
Some(x) == <<x>>

(***************************************************************************)
(* Bounds of the model.                                                    *)
(***************************************************************************)
MaxLen == 3
MaxTerms == 2
MaxAliases == 2
MaxCalls == 1

(***************************************************************************)
(* Characters.                                                             *)
(***************************************************************************)
LowerLetters == {"a", "b"}
UpperLetters == {"A", "B"}
WideLetters == {"wide_a"}
Whitespace == {" ", "\n"}
Joiners == {"_", "-"}
Punctuation == {"!", ","}

\* unicodedata.normalize("NFKC", c): a compatibility character becomes its
\* plain counterpart, every other character of the model is unchanged.
NFKC(c) == IF c = "wide_a" THEN "a" ELSE c

\* str.lower() on one character.
Lower(c) == CASE c = "A" -> "a" [] c = "B" -> "b" [] OTHER -> c

\* The regular expression classes \s and \w.
IsSpace(c) == c \in Whitespace
IsWord(c) == c \in LowerLetters \cup UpperLetters \cup WideLetters \cup {"_"}


SetMin(S) == CHOOSE x \in S : \A y \in S : x <= y
SetMax(S) == CHOOSE x \in S : \A y \in S : x >= y

\* str.strip(): leading and trailing whitespace removed.
StripTo(s, keep) == IF keep = {} THEN <<>> ELSE SubSeq(s, SetMin(keep), SetMax(keep))
Strip(s) == StripTo(s, {i \in 1..Len(s) : ~IsSpace(s[i])})

\* re.sub(r"\s+", " ", s): every maximal run of whitespace becomes one space.
RECURSIVE CollapseSpaces(_)
CollapseSpaces(s) ==
  IF s = <<>> THEN <<>>
  ELSE IF IsSpace(Head(s))
       THEN IF Len(s) > 1 /\ IsSpace(s[2])
            THEN CollapseSpaces(Tail(s))
            ELSE <<" ">> \o CollapseSpaces(Tail(s))
       ELSE <<Head(s)>> \o CollapseSpaces(Tail(s))

ReplaceJoiner(c) == IF c \in Joiners THEN " " ELSE c
ReplaceNonWord(c) == IF IsWord(c) \/ IsSpace(c) THEN c ELSE " "
LowerNFKC(c) == Lower(NFKC(c))

\* _normalize_text: NFKC, lower, strip, then "_" and "-" to a space, then
\* every character that is neither \w nor \s to a space, then runs of
\* whitespace to one space.  The strip comes before the replacements.
LowerNFKCAll(s) == [i \in 1..Len(s) |-> LowerNFKC(s[i])]
ReplaceJoiners(s) == [i \in 1..Len(s) |-> ReplaceJoiner(s[i])]
ReplaceNonWords(s) == [i \in 1..Len(s) |-> ReplaceNonWord(s[i])]

_normalize_text(value) ==
  CollapseSpaces(ReplaceNonWords(ReplaceJoiners(Strip(LowerNFKCAll(value)))))

\* b occurs in a as a contiguous substring (Python's "b in a").
IsSubstring(b, a) ==
  \E i \in 0..(Len(a) - Len(b)) : SubSeq(a, i + 1, i + Len(b)) = b

(***************************************************************************)
(* difflib.SequenceMatcher(None, a, b).ratio() for strings shorter than    *)
(* 200 characters (no junk, no autojunk): the Ratcliff/Obershelp count of  *)
(* matching characters M, and the ratio 2*M / (len(a) + len(b)).           *)
(***************************************************************************)
\* a and b hold the same block of k characters at i and at j.
SameBlock(a, b, i, j, k) == SubSeq(a, i, i + k - 1) = SubSeq(b, j, j + k - 1)

\* The lengths of the non-empty blocks a and b have in common.
BlockLengths(a, b) ==
  {k \in 1..Len(a) : \E i \in 1..(Len(a) - k + 1), j \in 1..(Len(b) - k + 1) :
                        SameBlock(a, b, i, j, k)}

\* find_longest_match: the longest common block <<i, j, k>>; among the
\* longest, the one that starts earliest in a; among those, the one that
\* starts earliest in b.
EarliestInB(a, b, i, k) ==
  <<i, SetMin({y \in 1..(Len(b) - k + 1) : SameBlock(a, b, i, y, k)}), k>>

EarliestInA(a, b, k) ==
  EarliestInB(a, b,
              SetMin({x \in 1..(Len(a) - k + 1) :
                        \E y \in 1..(Len(b) - k + 1) : SameBlock(a, b, x, y, k)}),
              k)

find_longest_match(a, b) == EarliestInA(a, b, SetMax(BlockLengths(a, b)))

\* The matching blocks of get_matching_blocks, summed: the longest block,
\* then the same to its left and to its right.
RECURSIVE MatchingChars(_, _)
AroundBlock(a, b, blk) ==
  blk[3] + MatchingChars(SubSeq(a, 1, blk[1] - 1), SubSeq(b, 1, blk[2] - 1))
         + MatchingChars(SubSeq(a, blk[1] + blk[3], Len(a)), SubSeq(b, blk[2] + blk[3], Len(b)))

MatchingChars(a, b) ==
  IF BlockLengths(a, b) = {} THEN 0 ELSE AroundBlock(a, b, find_longest_match(a, b))

\* ratio(): 1.0 when both strings are empty.
Ratio(a, b) ==
  IF Len(a) + Len(b) = 0 THEN <<1, 1>>
  ELSE <<2 * MatchingChars(a, b), Len(a) + Len(b)>>

RatioGT(r, s) == r[1] * s[2] > s[1] * r[2]
\* ratio >= threshold, the threshold in hundredths.
RatioGE(r, hundredths) == 100 * r[1] >= hundredths * r[2]

\* round(ratio, 2) in hundredths (ties to even; no tie arises for strings
\* shorter than 8 characters).
RoundHalfEven(q, m, d) ==
  IF 2 * m < d THEN q
  ELSE IF 2 * m > d THEN q + 1
  ELSE IF q % 2 = 0 THEN q ELSE q + 1

Round2(r) == RoundHalfEven((100 * r[1]) \div r[2], (100 * r[1]) % r[2], r[2])

Min2(x, y) == IF x < y THEN x ELSE y
Max2(x, y) == IF x > y THEN x ELSE y

(***************************************************************************)
(* The dictionary: types.py Domain, repository.py Term and Alias.          *)
(***************************************************************************)
Domains == {"process", "variety", "roast_level", "country", "flavor_note"}

Term(domain, key, label_en, label_ko) ==
  [domain |-> domain, key |-> key, label_en |-> label_en, label_ko |-> label_ko]

Alias(domain, key, alias, match_type, priority, alias_kind) ==
  [domain |-> domain, key |-> key, alias |-> alias, match_type |-> match_type,
   priority |-> priority, alias_kind |-> alias_kind]

\* DictionaryRepository.terms_by_domain / aliases_by_domain: the entries of
\* the domain, in load order.
InDomain(seq, domain) ==
  LET Keep(e) == e.domain = domain IN SelectSeq(seq, Keep)

terms_by_domain(domain) == InDomain(terms, domain)
aliases_by_domain(domain) == InDomain(aliases, domain)

\* _build_term_index: index[term.domain][term.key] = term, in load order, so
\* the last Term loaded under a (domain, key) is the one the index keeps.
LastWithKey(of_d, k) == of_d[SetMax({i \in 1..Len(of_d) : of_d[i].key = k})]
IndexOf(of_d) == [k \in {of_d[i].key : i \in 1..Len(of_d)} |-> LastWithKey(of_d, k)]
BuildTermIndex(ts) == [d \in Domains |-> IndexOf(InDomain(ts, d))]

(***************************************************************************)
(* The matching strategies.  A strategy yields NoMatch (Python's None), a  *)
(* MatchResult, or raises.                                                 *)
(***************************************************************************)
ExactConfidence == 98
AliasConfidence == 90
RegexConfidence == 88
ContainsConfidence == 86
FuzzyMinConfidence == 70
FuzzyMaxConfidence == 85

NoReason == [code |-> "none", score |-> 0]
NoMatch == [kind |-> "none"]
Raised(exc) == [kind |-> "raise", exc |-> exc]
MatchResult(term, confidence, method, reason) ==
  [kind |-> "match", key |-> term.key, label_en |-> term.label_en,
   label_ko |-> term.label_ko, confidence |-> confidence, method |-> method,
   candidates |-> <<term.key>>, reason |-> reason]

\* The first of the indices hits, 0 when there is none.
MinOrZero(hits) == IF hits = {} THEN 0 ELSE SetMin(hits)

\* The entries left in load order.
LoadOrder(seq) == seq

\* sorted(entries, key=priority): ascending priority, stable (entries of
\* equal priority keep their load order).
RECURSIVE SortedByPriority(_)
MoveToFront(seq, at) ==
  <<seq[at]>> \o SortedByPriority(SubSeq(seq, 1, at - 1) \o SubSeq(seq, at + 1, Len(seq)))

FirstWithPriority(seq, low) == SetMin({i \in 1..Len(seq) : seq[i].priority = low})

SortedByPriority(seq) ==
  IF seq = <<>> THEN <<>>
  ELSE MoveToFront(seq, FirstWithPriority(seq, SetMin({seq[i].priority : i \in 1..Len(seq)})))

\* A Term's key, label_en or label_ko normalizes to the normalized raw.
TermHit(term, normalized_raw) ==
  \/ normalized_raw = _normalize_text(term.key)
  \/ normalized_raw = _normalize_text(term.label_en)
  \/ normalized_raw = _normalize_text(term.label_ko)

ExactAt(ts, at) ==
  IF at = 0 THEN NoMatch ELSE MatchResult(ts[at], ExactConfidence, "exact", NoReason)

\* The exact strategy that keeps the last Term that matches.
ExactInLast(ts, normalized_raw) ==
  ExactAt(ts, IF \A i \in 1..Len(ts) : ~TermHit(ts[i], normalized_raw) THEN 0
              ELSE SetMax({i \in 1..Len(ts) : TermHit(ts[i], normalized_raw)}))

ExactIn(ts, normalized_raw) ==
  ExactAt(ts, MinOrZero({i \in 1..Len(ts) : TermHit(ts[i], normalized_raw)}))

\* _match_exact: the first Term in load order one of whose key, label_en,
\* label_ko normalizes to the normalized raw.
_match_exact(domain, raw) == ExactIn(terms_by_domain(domain), _normalize_text(raw))

\* _match_from_alias: the Term the alias refers to; a key the index does not
\* hold is a KeyError.
_match_from_alias(alias, confidence, method) ==
  IF alias.key \in DOMAIN term_index[alias.domain]
  THEN MatchResult(term_index[alias.domain][alias.key], confidence, method, NoReason)
  ELSE Raised("KeyError")

AliasAt(sorted, at, confidence, method) ==
  IF at = 0 THEN NoMatch ELSE _match_from_alias(sorted[at], confidence, method)

\* The aliases of the domain with the match type, in ascending priority.
AliasesOfType(domain, match_type) ==
  LET Keep(a) == a.match_type = match_type
  IN SortedByPriority(SelectSeq(aliases_by_domain(domain), Keep))

AliasExactIn(sorted, normalized_raw) ==
  AliasAt(sorted,
          MinOrZero({i \in 1..Len(sorted) : normalized_raw = _normalize_text(sorted[i].alias)}),
          AliasConfidence, "alias")

\* _match_alias: allowed_match_types and allowed_alias_kinds are None or
\* Some(set).
_match_alias(domain, raw, allowed_match_types, allowed_alias_kinds) ==
  LET Keep(a) == /\ a.match_type = "exact"
                 /\ (allowed_match_types = None \/ a.match_type \in allowed_match_types[1])
                 /\ (allowed_alias_kinds = None \/ a.alias_kind \in allowed_alias_kinds[1])
  IN AliasExactIn(SortedByPriority(SelectSeq(aliases_by_domain(domain), Keep)),
                  _normalize_text(raw))

\* re.search(pattern, raw, flags=re.IGNORECASE) for a pattern of literal
\* characters: the pattern occurs in the raw string, letter case ignored.
LowerAll(s) == [i \in 1..Len(s) |-> Lower(s[i])]
RegexSearch(pattern, raw) ==
  IsSubstring(LowerAll(pattern), LowerAll(raw))

RegexIn(sorted, raw) ==
  AliasAt(sorted, MinOrZero({i \in 1..Len(sorted) : RegexSearch(sorted[i].alias, raw)}),
          RegexConfidence, "regex")

\* _match_regex: searched in the raw string, not in its normalized form.
_match_regex(domain, raw) == RegexIn(AliasesOfType(domain, "regex"), raw)

ContainsIn(sorted, normalized_raw) ==
  AliasAt(sorted,
          MinOrZero({i \in 1..Len(sorted) :
                       IsSubstring(_normalize_text(sorted[i].alias), normalized_raw)}),
          ContainsConfidence, "alias")

\* _match_contains: the normalized alias is a substring of the normalized raw.
_match_contains(domain, raw) ==
  ContainsIn(AliasesOfType(domain, "contains"), _normalize_text(raw))

\* if ratio > best_ratio: best_ratio = ratio; best_term = term
Better(best, ratio, n) == IF RatioGT(ratio, best[1]) THEN <<ratio, n>> ELSE best

\* The loop of _match_fuzzy: <<best_ratio, index of best_term>> after the
\* first n Terms, each with its key, label_en and label_ko in this order.
\* Index 0 is best_term = None.
RECURSIVE BestFuzzy(_, _, _)
BestFuzzy(ts, normalized_raw, n) ==
  IF n = 0 THEN <<(<<0, 1>>), 0>>
  ELSE Better(Better(Better(BestFuzzy(ts, normalized_raw, n - 1),
                            Ratio(normalized_raw, _normalize_text(ts[n].key)), n),
                     Ratio(normalized_raw, _normalize_text(ts[n].label_en)), n),
              Ratio(normalized_raw, _normalize_text(ts[n].label_ko)), n)

\* The rounded ratio with no clamp.
UnclampedConfidence(ratio) == Round2(ratio)

\* max(0.7, min(0.85, round(best_ratio, 2)))
FuzzyConfidence(ratio) == Max2(FuzzyMinConfidence, Min2(FuzzyMaxConfidence, Round2(ratio)))

\* if best_term and best_ratio >= resolved_threshold
FuzzyAccept(ts, best, resolved_threshold) ==
  IF best[2] # 0 /\ RatioGE(best[1], resolved_threshold)
  THEN MatchResult(ts[best[2]], FuzzyConfidence(best[1]), "fuzzy",
                   [code |-> "fuzzy_score", score |-> Round2(best[1])])
  ELSE NoMatch

FuzzyIn(ts, normalized_raw, resolved_threshold) ==
  FuzzyAccept(ts, BestFuzzy(ts, normalized_raw, Len(ts)), resolved_threshold)

\* _match_fuzzy: threshold is None or Some(hundredths).
_match_fuzzy(domain, raw, threshold) ==
  FuzzyIn(terms_by_domain(domain), _normalize_text(raw),
          IF threshold # None THEN threshold[1] ELSE config.fuzzy_threshold)

\* str.lower() on the configured mode.
LowerMode(mode) == IF mode = "STRICT" THEN "strict" ELSE mode

_is_strict_flavor_note(domain) ==
  domain = "flavor_note" /\ LowerMode(config.flavor_note_mode) = "strict"

\* Python's "a or b" on strategy results: b is evaluated only when a is
\* None; an exception raised by a ends the chain.
OrElse(a, b) == IF a.kind = "none" THEN b ELSE a

\* The strict chain with no restriction on the alias kind.
StrictChainAnyKind(domain, value) ==
  OrElse(_match_exact(domain, value),
  OrElse(_match_alias(domain, value, Some({"exact"}), None),
         _match_fuzzy(domain, value, Some(config.flavor_note_fuzzy_threshold))))

\* The strict chain with the fuzzy strategy at the general threshold.
StrictChainGeneralThreshold(domain, value) ==
  OrElse(_match_exact(domain, value),
  OrElse(_match_alias(domain, value, Some({"exact"}), Some({"typo"})),
         _match_fuzzy(domain, value, None)))

StrictChain(domain, value) ==
  OrElse(_match_exact(domain, value),
  OrElse(_match_alias(domain, value, Some({"exact"}), Some({"typo"})),
         _match_fuzzy(domain, value, Some(config.flavor_note_fuzzy_threshold))))

\* The default chain with the regex strategy ahead of the exact aliases.
DefaultChainRegexFirst(domain, value) ==
  OrElse(_match_exact(domain, value),
  OrElse(_match_regex(domain, value),
  OrElse(_match_alias(domain, value, None, None),
  OrElse(_match_contains(domain, value),
         _match_fuzzy(domain, value, None)))))

DefaultChain(domain, value) ==
  OrElse(_match_exact(domain, value),
  OrElse(_match_alias(domain, value, None, None),
  OrElse(_match_regex(domain, value),
  OrElse(_match_contains(domain, value),
         _match_fuzzy(domain, value, None)))))

MatchChain(domain, value) ==
  IF _is_strict_flavor_note(domain) THEN StrictChain(domain, value)
  ELSE DefaultChain(domain, value)

(***************************************************************************)
(* The unknown queue: _enqueue_unknown and _send_unknown_webhook.          *)
(***************************************************************************)
\* What the environment does to the log append (mkdir, open, write) and to
\* the POST (urlopen).  Every failure of the append is an OSError.
LogOutcomes == {"ok", "mkdir_failed", "open_failed", "write_failed"}
WebhookOutcomes == {"ok", "URLError", "HTTPError", "TimeoutError", "RemoteDisconnected"}

\* The exception classes an exception is an instance of.
ExceptionClasses(exc) ==
  CASE exc = "HTTPError" -> {"HTTPError", "URLError", "OSError"}
    [] exc = "URLError" -> {"URLError", "OSError"}
    [] exc = "TimeoutError" -> {"TimeoutError", "OSError"}
    [] exc = "RemoteDisconnected" -> {"RemoteDisconnected", "ConnectionResetError", "OSError"}
    [] OTHER -> {exc}

\* except (error.URLError, TimeoutError, ValueError)
WebhookCaught == {"URLError", "TimeoutError", "ValueError"}

\* A POST whose body leaves out the timestamp.
PostWithoutTs(url, payload, hook_outcome) ==
  [exc |-> "none", hook |-> hook_outcome,
   posted |-> <<[f \in DOMAIN payload \ {"ts"} |-> payload[f]]>>]

\* A POST that is sent again after a failure that is caught.
PostWithRetry(url, payload, hook_outcome) ==
  IF hook_outcome = "ok" THEN [exc |-> "none", hook |-> "ok", posted |-> <<payload>>]
  ELSE [exc |-> "none", hook |-> hook_outcome, posted |-> <<payload, payload>>]

\* _send_unknown_webhook: request.Request(url, ...) is built before the try
\* and raises ValueError for a URL with no scheme; urlopen runs inside the
\* try.  Yields the exception that leaves the function ("none" when it
\* returns), what happened to the POST, and the bodies handed to urlopen,
\* one per attempt.
_send_unknown_webhook(url, payload, hook_outcome) ==
  IF url = "no_scheme" THEN [exc |-> "ValueError", hook |-> "bad_url", posted |-> <<>>]
  ELSE IF hook_outcome = "ok" THEN [exc |-> "none", hook |-> "ok", posted |-> <<payload>>]
  ELSE IF ExceptionClasses(hook_outcome) \cap WebhookCaught # {}
       THEN [exc |-> "none", hook |-> hook_outcome, posted |-> <<payload>>]
       ELSE [exc |-> hook_outcome, hook |-> hook_outcome, posted |-> <<payload>>]

\* _enqueue_unknown: the append to the log when a path is configured, then
\* the POST when a URL is configured.  log is "skipped" (no path),
\* "appended" or the failure; hook is "skipped" (no URL), "not_reached" (an
\* exception ended the call before the POST) or what happened to the POST.
AfterAppend(payload, log, sent) ==
  [exc |-> sent.exc, log |-> log, hook |-> sent.hook,
   lines |-> IF log = "appended" THEN <<payload>> ELSE <<>>, posted |-> sent.posted]

AfterLog(payload, log, hook_outcome) ==
  IF log \notin {"skipped", "appended"}
  THEN [exc |-> "OSError", log |-> log, hook |-> "not_reached", lines |-> <<>>,
        posted |-> <<>>]
  ELSE AfterAppend(payload, log,
         IF config.unknown_queue_webhook_url = None
         THEN [exc |-> "none", hook |-> "skipped", posted |-> <<>>]
         ELSE _send_unknown_webhook(config.unknown_queue_webhook_url[1], payload,
                                    hook_outcome))

_enqueue_unknown(payload, log_outcome, hook_outcome) ==
  AfterLog(payload,
           IF config.unknown_queue_path = None THEN "skipped"
           ELSE IF log_outcome = "ok" THEN "appended" ELSE log_outcome,
           hook_outcome)

\* The payload; ts, datetime.now(), is read off the count of operations.
Payload(domain, raw, confidence, reason, method, normalized_key) ==
  [ts |-> calls, domain |-> domain, raw |-> raw, confidence |-> confidence, reason |-> reason,
   method |-> method, normalized_key |-> normalized_key,
   dictionary_version |-> config.dictionary_version]

(***************************************************************************)
(* normalize_one.                                                          *)
(***************************************************************************)
NormalizedItem(domain, raw, normalized_key, label_en, label_ko, confidence, method, candidates, reason) ==
  [domain |-> domain, raw |-> raw, normalized_key |-> normalized_key,
   normalized_label_en |-> label_en, normalized_label_ko |-> label_ko,
   confidence |-> confidence, method |-> method, candidates |-> candidates,
   reason |-> reason]

\* NormalizedItem(domain=domain, raw=raw, reason="empty_input"): the other
\* fields keep their defaults.
EmptyItem(domain, raw) ==
  NormalizedItem(domain, raw, None, None, None, 0, "unmapped", <<>>,
                 [code |-> "empty_input", score |-> 0])

\* An unmapped item that shares its candidates list with the last result.
UnmappedItemSharedList(domain, raw) ==
  NormalizedItem(domain, raw, None, None, None, 0, "unmapped",
                 IF history = <<>> THEN <<>> ELSE history[Len(history)].item.candidates,
                 [code |-> "no_dictionary_match", score |-> 0])

UnmappedItem(domain, raw) ==
  NormalizedItem(domain, raw, None, None, None, 0, "unmapped", <<>>,
                 [code |-> "no_dictionary_match", score |-> 0])

\* A matched item that carries the key and no labels.
MatchedItemNoLabels(domain, raw, match) ==
  NormalizedItem(domain, raw, Some(match.key), None, None,
                 match.confidence, match.method, match.candidates, match.reason)

MatchedItem(domain, raw, match) ==
  NormalizedItem(domain, raw, Some(match.key), Some(match.label_en), Some(match.label_ko),
                 match.confidence, match.method, match.candidates, match.reason)

Returned(item) ==
  [outcome |-> "returned", exc |-> "none", item |-> Some(item), events |-> <<>>,
   log |-> "skipped", hook |-> "skipped", lines |-> <<>>, posted |-> <<>>]

RaisedCall(exc) ==
  [outcome |-> "raised", exc |-> exc, item |-> None, events |-> <<>>,
   log |-> "skipped", hook |-> "skipped", lines |-> <<>>, posted |-> <<>>]

\* The call ends after _enqueue_unknown(payload): with item when the
\* reporter returned, with the reporter's exception otherwise.
EndOfCall(item, payload, q) ==
  [outcome |-> IF q.exc = "none" THEN "returned" ELSE "raised", exc |-> q.exc,
   item |-> IF q.exc = "none" THEN Some(item) ELSE None, events |-> <<payload>>,
   log |-> q.log, hook |-> q.hook, lines |-> q.lines, posted |-> q.posted]

AfterEnqueue(item, payload, log_outcome, hook_outcome) ==
  EndOfCall(item, payload, _enqueue_unknown(payload, log_outcome, hook_outcome))

\* The floor compared with <= : a confidence equal to the floor is reported.
BelowOrAtFloor(confidence) ==
  /\ config.unknown_min_confidence # None
  /\ confidence <= config.unknown_min_confidence[1]

\* min_conf is not None and item.confidence < min_conf
BelowFloor(confidence) ==
  /\ config.unknown_min_confidence # None
  /\ confidence < config.unknown_min_confidence[1]

\* Lines 117-139: a match becomes the item; below the floor it is reported
\* with reason low_confidence before it is returned.
ReturnMatch(domain, raw, item, log_outcome, hook_outcome) ==
  IF BelowFloor(item.confidence)
  THEN AfterEnqueue(item,
                    Payload(domain, raw, item.confidence, "low_confidence", item.method,
                            item.normalized_key),
                    log_outcome, hook_outcome)
  ELSE Returned(item)

\* Lines 117-156, with the outcome of the strategy chain.
AfterMatch(domain, raw, match, log_outcome, hook_outcome) ==
  IF match.kind = "raise" THEN RaisedCall(match.exc)
  ELSE IF match.kind = "match"
       THEN ReturnMatch(domain, raw, MatchedItem(domain, raw, match), log_outcome, hook_outcome)
       ELSE AfterEnqueue(UnmappedItem(domain, raw),
                         Payload(domain, raw, 0, "no_dictionary_match", "unmapped", None),
                         log_outcome, hook_outcome)

\* Lines 85-91: raw is None or Some(string); None, "" and a string of
\* whitespace end the call before any strategy runs.
\* The test of `not raw` alone, with no strip.
IsFalsy(raw) == raw = None \/ raw[1] = <<>>

IsBlank(raw) == raw = None \/ Strip(raw[1]) = <<>>

BlankCall(domain, raw) ==
  IF raw = None \/ raw[1] = <<>> THEN Returned(EmptyItem(domain, <<>>))
  ELSE Returned(EmptyItem(domain, raw[1]))

\* Lines 89-115: the strategies run on the stripped value.
ChainFor(domain, raw) == MatchChain(domain, Strip(raw[1]))

\* normalize_one(domain, raw) once the strategies yielded match.
normalize_one(domain, raw, match, log_outcome, hook_outcome) ==
  IF IsBlank(raw) THEN BlankCall(domain, raw)
  ELSE AfterMatch(domain, raw[1], match, log_outcome, hook_outcome)

(***************************************************************************)
(* Inputs: raw values, dictionaries and configurations.                    *)
(***************************************************************************)
RawAlphabet == {"a", "B", " "}
RawStrings == UNION {[1..n -> RawAlphabet] : n \in 0..MaxLen}
RawValues == {None} \cup {Some(s) : s \in RawStrings}

\* The sequences of at most n distinct elements of pool.
Lists(pool, n) ==
  UNION {{s \in [1..k -> pool] : \A i, j \in 1..k : i # j => s[i] # s[j]} : k \in 0..n}

\* A dictionary has its entries in one domain, focus, and may hold an entry
\* of another domain with the same texts.
OtherDomain == "country"

TermPool(focus) ==
  { Term(focus, <<"a", "b">>, <<"a", "-", "b">>, <<"a", "b", "a", "b">>),
    Term(focus, <<"b", "a">>, <<"b", "-", "b">>, <<"a", "b">>),
    Term(OtherDomain, <<"a">>, <<"a", "b">>, <<"b">>) }

AliasPool(focus) ==
  { Alias(focus, <<"a", "b">>, <<"b">>, "exact", 2, "semantic"),
    Alias(focus, <<"b", "a">>, <<"B">>, "exact", 1, "typo"),
    Alias(focus, <<"a", "b">>, <<"b">>, "regex", 2, "semantic"),
    Alias(focus, <<"b", "a">>, <<"a", "B">>, "regex", 1, "semantic"),
    Alias(focus, <<"a", "b">>, <<"a">>, "contains", 1, "semantic"),
    Alias(focus, <<"b", "a">>, <<"b">>, "contains", 1, "semantic"),
    Alias(OtherDomain, <<"a">>, <<"b">>, "exact", 0, "typo") }

Config(mode, fuzzy, flavor_fuzzy, min_conf, path, url) ==
  [dictionary_version |-> "v1", fuzzy_threshold |-> fuzzy, flavor_note_mode |-> mode,
   flavor_note_fuzzy_threshold |-> flavor_fuzzy, unknown_queue_path |-> path,
   unknown_min_confidence |-> min_conf, unknown_queue_webhook_url |-> url]

Thresholds == {50, 80}
Floors == {None, Some(88)}

\* Matching: every dictionary of the pools, the reporter with no sink.
MatchingConfigs(focus) ==
  IF focus = "flavor_note"
  THEN {Config(m, f, 80, None, None, None) : m \in {"strict", "legacy"}, f \in Thresholds}
  ELSE {Config("strict", f, 94, None, None, None) : f \in Thresholds}

\* Reporting: one dictionary, every combination of floor and sinks.
ReportingConfigs ==
  {Config("strict", 50, 94, c, p, u) :
     c \in Floors, p \in {None, Some("path")},
     u \in {None, Some("valid"), Some("no_scheme")}}

ReportingTerms ==
  <<Term("process", <<"a", "b">>, <<"a", "-", "b">>, <<"a", "b", "a", "b">>)>>

ReportingAliases ==
  <<Alias("process", <<"a", "b">>, <<"b">>, "exact", 2, "semantic"),
    Alias("process", <<"a", "b">>, <<"b", "b">>, "regex", 1, "semantic"),
    Alias("process", <<"a", "b">>, <<"a", "a">>, "contains", 1, "semantic")>>

NoCall ==
  [op |-> "none", domain |-> "process", raw |-> None, outcome |-> "none", exc |-> "none",
   item |-> None, events |-> <<>>, log |-> "skipped", hook |-> "skipped", lines |-> <<>>,
   posted |-> <<>>]

InitMatching ==
  \E focus \in {"process", "flavor_note"} :
    /\ terms \in Lists(TermPool(focus), MaxTerms)
    /\ aliases \in Lists(AliasPool(focus), MaxAliases)
    /\ config \in MatchingConfigs(focus)

InitReporting ==
  /\ terms = ReportingTerms
  /\ aliases = ReportingAliases
  /\ config \in ReportingConfigs

\* The state after NormalizationEngine.__init__.
Init ==
  /\ InitMatching \/ InitReporting
  /\ term_index = BuildTermIndex(terms)
  /\ calls = 0
  /\ last = NoCall
  /\ queue_file = <<>>
  /\ history = <<>>
  /\ writers = <<>>
  /\ engine = "ready"
  /\ provider = None

\* The call reaches _enqueue_unknown: the strategies end with no match or
\* with a match below the floor.
Enqueues(match) ==
  \/ match.kind = "none"
  \/ match.kind = "match" /\ BelowFloor(match.confidence)

CallRecord(op, domain, raw, r) ==
  [op |-> op, domain |-> domain, raw |-> raw, outcome |-> r.outcome, exc |-> r.exc,
   item |-> r.item, events |-> r.events, log |-> r.log, hook |-> r.hook, lines |-> r.lines,
   posted |-> r.posted]

\* What the calls of a trace returned, in order: one entry per call that
\* returned (only the last call of a trace can have raised).
ReturnedCalls(trace) ==
  IF trace # <<>> /\ trace[Len(trace)].outcome = "raised" THEN Len(trace) - 1 ELSE Len(trace)

Results(trace) ==
  [i \in 1..ReturnedCalls(trace) |->
     [domain |-> trace[i].domain, raw |-> trace[i].raw, item |-> trace[i].item[1]]]

\* The environment chooses the fate of the append and of the POST when the
\* call attempts them.
NormalizeOneWith(domain, raw, match) ==
  \E log_outcome \in (IF Enqueues(match) /\ config.unknown_queue_path # None
                      THEN LogOutcomes ELSE {"ok"}),
     hook_outcome \in (IF Enqueues(match) /\ config.unknown_queue_webhook_url # None
                       THEN WebhookOutcomes ELSE {"ok"}) :
    last' = CallRecord("normalize_one", domain, raw,
                       normalize_one(domain, raw, match, log_outcome, hook_outcome))

\* A call that keeps the raw value it resolved as a new alias of the key.
NormalizeOneStepLearning(domain, raw) ==
  /\ NormalizeOneWith(domain, raw, IF IsBlank(raw) THEN NoMatch ELSE ChainFor(domain, raw))
  /\ queue_file' = queue_file \o last'.lines
  /\ history' = history \o Results(<<last'>>)
  /\ aliases' = IF last'.outcome = "returned" /\ last'.item[1].normalized_key # None
                THEN aliases \o <<Alias(domain, last'.item[1].normalized_key[1], raw[1],
                                        "exact", 0, "typo")>>
                ELSE aliases
  /\ UNCHANGED <<terms, config, term_index, writers, engine, provider>>

\* One call of normalize_one, the reporter's I/O included.
NormalizeOneStep(domain, raw) ==
  /\ NormalizeOneWith(domain, raw, IF IsBlank(raw) THEN NoMatch ELSE ChainFor(domain, raw))
  /\ queue_file' = queue_file \o last'.lines
  /\ history' = history \o Results(<<last'>>)
  /\ UNCHANGED <<terms, aliases, config, term_index, writers, engine, provider>>

NormalizeOne(domain, raw) ==
  /\ calls < MaxCalls
  /\ calls' = calls + 1
  /\ NormalizeOneStep(domain, raw)

Next == \E domain \in Domains, raw \in RawValues : NormalizeOne(domain, raw)

Spec == Init /\ [][Next]_vars

(***************************************************************************)
(* _split_multi_values.                                                    *)
(***************************************************************************)
\* The characters of [,\n;/|·、]; the middle dot and the ideographic comma
\* are named.
Separators == {",", "\n", ";", "/", "|", "middle_dot", "ideographic_comma"}

FirstSeparator(s) == MinOrZero({i \in 1..Len(s) : s[i] \in Separators})

\* The index after the run of separators that starts at i.
RunEnd(s, i) ==
  SetMin({j \in (i + 1)..(Len(s) + 1) : j = Len(s) + 1 \/ s[j] \notin Separators})

\* re.split(r"[,\n;/|·、]+", text): the pieces between the runs of
\* separators, the empty pieces at both ends included.
RECURSIVE ReSplit(_)
SplitAt(s, i) ==
  IF i = 0 THEN <<s>>
  ELSE <<SubSeq(s, 1, i - 1)>> \o ReSplit(SubSeq(s, RunEnd(s, i), Len(s)))

ReSplit(s) == SplitAt(s, FirstSeparator(s))

StripAll(tokens) == [i \in 1..Len(tokens) |-> Strip(tokens[i])]
NonEmpty(token) == token # <<>>

\* [token.strip() for token in tokens if token.strip()]
Items(tokens) == SelectSeq(StripAll(tokens), NonEmpty)

\* items or [text]
ItemsOrText(items, text) == IF items = <<>> THEN <<text>> ELSE items

SplitText(text) ==
  IF text = <<>> THEN <<>> ELSE ItemsOrText(Items(ReSplit(text)), text)

_split_multi_values(value) == SplitText(Strip(value))

\* The strings given to the splitter.
MaxSplitLen == 4
SplitAlphabet == {"a", " "} \cup Separators
SplitStrings == UNION {[1..n -> SplitAlphabet] : n \in 0..MaxSplitLen}

\* The splitter alone, on an engine with an empty dictionary.
InitSplit ==
  /\ terms = <<>>
  /\ aliases = <<>>
  /\ config = Config("strict", 86, 94, None, None, None)
  /\ term_index = BuildTermIndex(terms)
  /\ calls = 0
  /\ last = NoCall
  /\ queue_file = <<>>
  /\ history = <<>>
  /\ writers = <<>>
  /\ engine = "ready"
  /\ provider = None

SplitMultiValues(value) ==
  /\ calls < MaxCalls
  /\ calls' = calls + 1
  /\ last' = [op |-> "_split_multi_values", value |-> value,
              tokens |-> _split_multi_values(value)]
  /\ UNCHANGED <<terms, aliases, config, term_index, queue_file, history, writers, engine,
                 provider>>

NextSplit == \E value \in SplitStrings : SplitMultiValues(value)

SpecSplit == InitSplit /\ [][NextSplit]_vars

(***************************************************************************)
(* _normalize_list and normalize_bean_info.  A fate is what the            *)
(* environment does to the append and to the POST of one call of           *)
(* normalize_one; an operation that makes several calls takes one fate per *)
(* call.                                                                   *)
(***************************************************************************)
Fate(log_outcome, hook_outcome) == [log |-> log_outcome, hook |-> hook_outcome]
OkFate == Fate("ok", "ok")

CallOf(domain, raw, match, fate) ==
  CallRecord("normalize_one", domain, raw,
             normalize_one(domain, raw, match, fate.log, fate.hook))

\* self.normalize_one(domain, raw) under fate.
CallWith(domain, raw, fate) ==
  CallOf(domain, raw, IF IsBlank(raw) THEN NoMatch ELSE ChainFor(domain, raw), fate)

\* The calls of normalize_one that an operation makes, in order: plan is
\* the sequence of [domain, raw]; an exception ends the operation.
RECURSIVE RunPlan(_, _)
ContinuePlan(rec, plan, fates) ==
  IF rec.outcome = "raised" THEN <<rec>> ELSE <<rec>> \o RunPlan(plan, fates)

RunPlan(plan, fates) ==
  IF plan = <<>> THEN <<>>
  ELSE ContinuePlan(CallWith(Head(plan).domain, Some(Head(plan).raw), Head(fates)),
                    Tail(plan), Tail(fates))

\* expanded_values: every value through _split_multi_values.
RECURSIVE Expand(_)
Expand(values) ==
  IF values = <<>> THEN <<>> ELSE _split_multi_values(Head(values)) \o Expand(Tail(values))

\* A plan that calls normalize_one once per distinct token text.
ListPlanDistinct(domain, tokens) ==
  [i \in 1..Cardinality({k \in 1..Len(tokens) : \A q \in 1..(k - 1) : tokens[q] # tokens[k]}) |->
     [domain |-> domain,
      raw |-> tokens[CHOOSE k \in 1..Len(tokens) :
                       /\ \A q \in 1..(k - 1) : tokens[q] # tokens[k]
                       /\ Cardinality({j \in 1..k : \A q \in 1..(j - 1) : tokens[q] # tokens[j]}) = i]]]

ListPlan(domain, tokens) == [i \in 1..Len(tokens) |-> [domain |-> domain, raw |-> tokens[i]]]

\* item.normalized_key or _normalize_text(item.raw)
dedupe_key(item) ==
  IF item.normalized_key # None /\ item.normalized_key[1] # <<>>
  THEN item.normalized_key[1]
  ELSE _normalize_text(item.raw)

\* The loop of _normalize_list over the items, with the keys seen so far.
RECURSIVE Dedupe(_, _)
\* The loop with no test of the keys seen.
KeepEvery(item, key, rest, seen) == <<item>> \o Dedupe(rest, seen \cup {key})

DedupeNext(item, key, rest, seen) ==
  IF key \in seen THEN Dedupe(rest, seen) ELSE <<item>> \o Dedupe(rest, seen \cup {key})

Dedupe(items, seen) ==
  IF items = <<>> THEN <<>>
  ELSE DedupeNext(Head(items), dedupe_key(Head(items)), Tail(items), seen)

TraceRaised(trace) == trace # <<>> /\ trace[Len(trace)].outcome = "raised"
ItemsOf(trace) == [i \in 1..Len(trace) |-> trace[i].item[1]]

ListResult(trace) ==
  IF TraceRaised(trace)
  THEN [outcome |-> "raised", exc |-> trace[Len(trace)].exc, items |-> <<>>, trace |-> trace]
  ELSE [outcome |-> "returned", exc |-> "none", items |-> Dedupe(ItemsOf(trace), {}),
        trace |-> trace]

_normalize_list(domain, values, fates) ==
  ListResult(RunPlan(ListPlan(domain, Expand(values)), fates))

\* BeanInfo and Origin, the fields that normalization reads.
Origin(country) == [country |-> country]
BeanInfo(process, roast_level, origin, variety, flavor_notes) ==
  [process |-> process, roast_level |-> roast_level, origin |-> origin,
   variety |-> variety, flavor_notes |-> flavor_notes]

\* Python truth of an optional string or list: neither None nor empty.
Truthy(value) == value # None /\ value[1] # <<>>

\* self.normalize_one(domain, raw) if raw else None
SinglePlan(domain, raw) ==
  IF Truthy(raw) THEN <<[domain |-> domain, raw |-> raw[1]]>> ELSE <<>>

\* bean.origin.country if bean.origin and bean.origin.country else None
country_raw(bean) ==
  IF bean.origin # None /\ Truthy(bean.origin[1].country) THEN bean.origin[1].country
  ELSE None

\* bean.variety or []
OrEmpty(values) == IF values = None THEN <<>> ELSE values[1]

BeanPlan(bean) ==
  SinglePlan("process", bean.process) \o SinglePlan("roast_level", bean.roast_level)
    \o SinglePlan("country", country_raw(bean))
    \o ListPlan("variety", Expand(OrEmpty(bean.variety)))
    \o ListPlan("flavor_note", Expand(OrEmpty(bean.flavor_notes)))

\* The item of the one call of a single-value domain, None with no call.
SingleItem(calls_in_domain) ==
  IF calls_in_domain = <<>> THEN None ELSE Some(calls_in_domain[1].item[1])

SingleWarning(domain, item) ==
  IF item # None /\ item[1].method = "unmapped" THEN <<domain \o "_unmapped">> ELSE <<>>

\* The warning only when every item is unmapped.
ListWarningWhenAll(domain, items) ==
  IF items # <<>> /\ \A i \in 1..Len(items) : items[i].method = "unmapped"
  THEN <<domain \o "_partial_unmapped">> ELSE <<>>

ListWarning(domain, items) ==
  IF \E i \in 1..Len(items) : items[i].method = "unmapped"
  THEN <<domain \o "_partial_unmapped">> ELSE <<>>

NormalizedBeanInfo(process, roast_level, country, varieties, flavor_notes) ==
  [dictionary_version |-> config.dictionary_version, process |-> process,
   roast_level |-> roast_level, country |-> country, varieties |-> varieties,
   flavor_notes |-> flavor_notes,
   warnings |-> SingleWarning("process", process) \o SingleWarning("roast_level", roast_level)
                  \o SingleWarning("country", country) \o ListWarning("variety", varieties)
                  \o ListWarning("flavor_note", flavor_notes)]

BeanResult(trace) ==
  IF TraceRaised(trace)
  THEN [outcome |-> "raised", exc |-> trace[Len(trace)].exc, result |-> None, trace |-> trace]
  ELSE [outcome |-> "returned", exc |-> "none",
        result |-> Some(NormalizedBeanInfo(SingleItem(InDomain(trace, "process")),
                                           SingleItem(InDomain(trace, "roast_level")),
                                           SingleItem(InDomain(trace, "country")),
                                           Dedupe(ItemsOf(InDomain(trace, "variety")), {}),
                                           Dedupe(ItemsOf(InDomain(trace, "flavor_note")), {}))),
        trace |-> trace]

normalize_bean_info(bean, fates) == BeanResult(RunPlan(BeanPlan(bean), fates))

(***************************************************************************)
(* The operations on one engine: normalize_one, _normalize_list and        *)
(* normalize_bean_info, MaxOps of them one after the other.                *)
(***************************************************************************)
MaxOps == 2
MaxListLen == 2

\* An operation meets at most one sink failure: the append cannot open the
\* file, the POST fails with an exception that is caught, or with one that
\* is not.
FailingFates ==
  {f \in {Fate("open_failed", "ok"), Fate("ok", "URLError"), Fate("ok", "RemoteDisconnected")} :
     /\ f.log = "ok" \/ config.unknown_queue_path # None
     /\ f.hook = "ok" \/ config.unknown_queue_webhook_url # None}

FatesFor(n) ==
  {[i \in 1..n |-> OkFate]}
    \cup {[i \in 1..n |-> IF i = k THEN f ELSE OkFate] : k \in 1..n, f \in FailingFates}

RECURSIVE LinesOf(_)
LinesOf(trace) == IF trace = <<>> THEN <<>> ELSE Head(trace).lines \o LinesOf(Tail(trace))

BeanTerms ==
  <<Term("variety", <<"a", "b">>, <<"a", "-", "b">>, <<"a", "b", "a", "b">>),
    Term("process", <<"a", "b">>, <<"a", "-", "b">>, <<"a", "b", "a", "b">>)>>

BeanAliases ==
  <<Alias("variety", <<"a", "b">>, <<"b">>, "exact", 1, "semantic"),
    Alias("variety", <<"a", "b">>, <<"a", "a">>, "contains", 1, "semantic")>>

\* The defaults with no sink, and a floor with both sinks.
BeanConfigs ==
  {Config("strict", 86, 94, None, None, None),
   Config("strict", 86, 94, Some(88), Some("path"), Some("valid"))}

OneDomains == {"variety", "process"}
OneRaws == {None, Some(<<" ">>), Some(<<"a", "b">>), Some(<<"b">>), Some(<<"a">>), Some(<<"a", "a">>)}

ListPool == {<<"a", "b">>, <<"b">>, <<"a">>, <<"A">>, <<"a", "a">>, <<",">>}
ListValues == UNION {[1..n -> ListPool] : n \in 0..MaxListLen}

\* Beans with one field set, the empty bean, and beans with every field set.
EmptyBean == BeanInfo(None, None, None, None, None)

Beans ==
  {EmptyBean}
    \cup {[EmptyBean EXCEPT !.process = p] :
            p \in {Some(<<>>), Some(<<" ">>), Some(<<"a">>), Some(<<"a", "b">>)}}
    \cup {[EmptyBean EXCEPT !.roast_level = Some(<<"a", "b">>)]}
    \cup {[EmptyBean EXCEPT !.origin = o] :
            o \in {Some(Origin(None)), Some(Origin(Some(<<"a">>)))}}
    \cup {[EmptyBean EXCEPT !.variety = v] :
            v \in {Some(<<>>), Some(<<<<"a", "b">>, <<"b">>>>), Some(<<<<"a", ",", "A">>>>)}}
    \cup {[EmptyBean EXCEPT !.flavor_notes = Some(<<<<"a", "a">>>>)]}
    \cup {BeanInfo(Some(<<"a", "b">>), Some(<<"a">>), Some(Origin(Some(<<"a">>))), v,
                   Some(<<<<"a">>>>)) :
            v \in {Some(<<<<"a", "b">>, <<"a">>>>), Some(<<<<"b">>, <<"a", "b">>>>)}}

InitBean ==
  /\ terms = BeanTerms
  /\ aliases = BeanAliases
  /\ config \in BeanConfigs
  /\ term_index = BuildTermIndex(terms)
  /\ calls = 0
  /\ last = NoCall
  /\ queue_file = <<>>
  /\ history = <<>>
  /\ writers = <<>>
  /\ engine = "ready"
  /\ provider = None

CallNormalizeOne(domain, raw) ==
  /\ calls < MaxOps
  /\ calls' = calls + 1
  /\ NormalizeOneStep(domain, raw)

ListRecord(domain, values, r) ==
  [op |-> "_normalize_list", domain |-> domain, values |-> values, outcome |-> r.outcome,
   exc |-> r.exc, items |-> r.items, trace |-> r.trace]

NormalizeList(domain, values) ==
  /\ calls < MaxOps
  /\ calls' = calls + 1
  /\ \E fates \in FatesFor(Len(Expand(values))) :
       last' = ListRecord(domain, values, _normalize_list(domain, values, fates))
  /\ queue_file' = queue_file \o LinesOf(last'.trace)
  /\ history' = history \o Results(last'.trace)
  /\ UNCHANGED <<terms, aliases, config, term_index, writers, engine, provider>>

BeanRecord(bean, r) ==
  [op |-> "normalize_bean_info", bean |-> bean, outcome |-> r.outcome, exc |-> r.exc,
   result |-> r.result, trace |-> r.trace]

NormalizeBeanInfo(bean) ==
  /\ calls < MaxOps
  /\ calls' = calls + 1
  /\ \E fates \in FatesFor(Len(BeanPlan(bean))) :
       last' = BeanRecord(bean, normalize_bean_info(bean, fates))
  /\ queue_file' = queue_file \o LinesOf(last'.trace)
  /\ history' = history \o Results(last'.trace)
  /\ UNCHANGED <<terms, aliases, config, term_index, writers, engine, provider>>

NextBean ==
  \/ \E domain \in OneDomains, raw \in OneRaws : CallNormalizeOne(domain, raw)
  \/ \E values \in ListValues : NormalizeList("variety", values)
  \/ \E bean \in Beans : NormalizeBeanInfo(bean)

SpecBean == InitBean /\ [][NextBean]_vars

(***************************************************************************)
(* Properties.  They describe the last call from the dictionary and the    *)
(* configuration alone, without the strategy operators above.              *)
(***************************************************************************)
CallDone == last.op = "normalize_one"
CallReturned == CallDone /\ last.outcome = "returned"
NonBlank == CallDone /\ last.raw # None /\ Strip(last.raw[1]) # <<>>
Item == last.item[1]
Value == Strip(last.raw[1])
NormValue == _normalize_text(Value)
StrictCall == last.domain = "flavor_note" /\ config.flavor_note_mode = "strict"

\* The Terms of the called domain one of whose texts normalizes to the value.
TermsHit ==
  {i \in 1..Len(terms) :
     /\ terms[i].domain = last.domain
     /\ NormValue \in {_normalize_text(terms[i].key), _normalize_text(terms[i].label_en),
                       _normalize_text(terms[i].label_ko)}}

AliasMatches(a) ==
  CASE a.match_type = "exact" -> NormValue = _normalize_text(a.alias)
    [] a.match_type = "regex" -> RegexSearch(a.alias, Value)
    [] a.match_type = "contains" -> IsSubstring(_normalize_text(a.alias), NormValue)
    [] OTHER -> FALSE

\* The aliases of the called domain, of the match type, that match the value.
AliasesHit(match_type) ==
  {i \in 1..Len(aliases) :
     /\ aliases[i].domain = last.domain
     /\ aliases[i].match_type = match_type
     /\ AliasMatches(aliases[i])}

TypoAliasesHit == {i \in AliasesHit("exact") : aliases[i].alias_kind = "typo"}
SemanticAliasesHit == {i \in AliasesHit("exact") : aliases[i].alias_kind = "semantic"}

AliasKeys(hits) == {Some(aliases[i].key) : i \in hits}
DomainTermIds == {i \in 1..Len(terms) : terms[i].domain = last.domain}

\* The similarity ratios of the value with every text of the domain's Terms.
Ratios ==
  UNION {{Ratio(NormValue, _normalize_text(terms[i].key)),
          Ratio(NormValue, _normalize_text(terms[i].label_en)),
          Ratio(NormValue, _normalize_text(terms[i].label_ko))} : i \in DomainTermIds}

\* The greatest ratio is positive and at least the threshold.
BestRatioReaches(threshold) == \E r \in Ratios : r[1] > 0 /\ RatioGE(r, threshold)
BestRatio == CHOOSE r \in Ratios : \A o \in Ratios : ~RatioGT(o, r)
ActiveThreshold ==
  IF StrictCall THEN config.flavor_note_fuzzy_threshold ELSE config.fuzzy_threshold

LogFailed == last.log \in LogOutcomes \ {"ok"}
HookFailures == {"URLError", "HTTPError", "TimeoutError", "RemoteDisconnected", "bad_url"}

\* C1: a non-strict call with a non-blank raw value that returns has the
\* method, key and confidence of the earliest strategy that succeeds in the
\* order exact, alias-exact, alias-regex, alias-contains, fuzzy.
C1_Precedence ==
  (NonBlank /\ CallReturned /\ ~StrictCall) =>
    IF TermsHit # {}
    THEN /\ Item.method = "exact" /\ Item.confidence = 98
         /\ Item.normalized_key \in {Some(terms[i].key) : i \in TermsHit}
    ELSE IF AliasesHit("exact") # {}
    THEN /\ Item.method = "alias" /\ Item.confidence = 90
         /\ Item.normalized_key \in AliasKeys(AliasesHit("exact"))
    ELSE IF AliasesHit("regex") # {}
    THEN /\ Item.method = "regex" /\ Item.confidence = 88
         /\ Item.normalized_key \in AliasKeys(AliasesHit("regex"))
    ELSE IF AliasesHit("contains") # {}
    THEN /\ Item.method = "alias" /\ Item.confidence = 86
         /\ Item.normalized_key \in AliasKeys(AliasesHit("contains"))
    ELSE IF BestRatioReaches(config.fuzzy_threshold)
    THEN /\ Item.method = "fuzzy" /\ Item.confidence \in 70..85
         /\ Item.normalized_key \in {Some(terms[i].key) : i \in DomainTermIds}
    ELSE Item.method = "unmapped" /\ Item.normalized_key = None

\* A value that an exact alias, a regex alias and the fuzzy strategy all
\* accept, resolved by the exact alias.
C1_Witness ==
  /\ NonBlank /\ CallReturned /\ ~StrictCall
  /\ TermsHit = {} /\ AliasesHit("exact") # {} /\ AliasesHit("regex") # {}
  /\ BestRatioReaches(config.fuzzy_threshold)
  /\ Item.method = "alias" /\ Item.confidence = 90

\* hits has an alias with the key that no other alias of hits precedes in
\* priority.
LowestPriorityWins(hits) ==
  \E i \in hits :
    /\ Item.normalized_key = Some(aliases[i].key)
    /\ \A j \in hits : aliases[i].priority <= aliases[j].priority

\* C2: within one alias strategy, the Term returned is the one of a matching
\* alias with the lowest priority number among the matching aliases.
C2_PriorityTieBreak ==
  (NonBlank /\ CallReturned) =>
    /\ (Item.method = "alias" /\ Item.confidence = 90)
         => LowestPriorityWins(IF StrictCall THEN TypoAliasesHit ELSE AliasesHit("exact"))
    /\ (Item.method = "regex") => LowestPriorityWins(AliasesHit("regex"))
    /\ (Item.method = "alias" /\ Item.confidence = 86)
         => LowestPriorityWins(AliasesHit("contains"))

\* Two matching regex aliases of different keys, the one of the lower
\* priority number loaded second, and it wins.
C2_Witness ==
  /\ NonBlank /\ CallReturned /\ Item.method = "regex"
  /\ AliasesHit("regex") = {1, 2}
  /\ aliases[2].priority < aliases[1].priority
  /\ aliases[1].key # aliases[2].key
  /\ Item.normalized_key = Some(aliases[2].key)

\* C3: the confidence of a returned item is fixed by the strategy: exact
\* 0.98, alias-exact 0.90, regex 0.88, alias-contains 0.86, unmapped 0; a
\* fuzzy item has a confidence in [0.70, 0.85] and is returned only when the
\* best ratio reaches the active threshold; every confidence is in [0, 1].
C3_ConfidenceBounds ==
  CallReturned =>
    /\ Item.confidence \in 0..100
    /\ Item.method \in {"exact", "alias", "regex", "fuzzy", "unmapped"}
    /\ Item.method = "exact" => Item.confidence = 98 /\ TermsHit # {}
    /\ Item.method = "regex" => Item.confidence = 88 /\ AliasesHit("regex") # {}
    /\ Item.method = "alias" =>
         \/ Item.confidence = 90 /\ AliasesHit("exact") # {}
         \/ Item.confidence = 86 /\ AliasesHit("contains") # {} /\ AliasesHit("exact") = {}
    /\ Item.method = "unmapped" => Item.confidence = 0
    /\ Item.method = "fuzzy" =>
         /\ Item.confidence \in 70..85
         /\ BestRatioReaches(ActiveThreshold)
         /\ Item.confidence = Max2(70, Min2(85, Round2(BestRatio)))

\* A fuzzy item whose rounded ratio, 0.86, is above the cap.
C3_Witness ==
  /\ NonBlank /\ CallReturned /\ Item.method = "fuzzy"
  /\ Round2(BestRatio) > 85 /\ Item.confidence = 85

\* C4: in strict flavor-note mode an item of method alias comes from a typo
\* alias, and a value that only semantic aliases match (no Term text, no
\* typo alias, no fuzzy ratio at the flavor threshold) is unmapped; in
\* legacy mode a flavor-note value whose exact aliases are all semantic and
\* that no Term text equals is resolved by such an alias, method alias.
C4_StrictBlocksSemantic ==
  (NonBlank /\ CallReturned /\ last.domain = "flavor_note") =>
    IF config.flavor_note_mode = "strict"
    THEN /\ Item.method = "alias" =>
              Item.normalized_key \in AliasKeys(TypoAliasesHit) /\ Item.confidence = 90
         /\ (TermsHit = {} /\ TypoAliasesHit = {}
               /\ ~BestRatioReaches(config.flavor_note_fuzzy_threshold))
              => Item.method = "unmapped"
    ELSE (TermsHit = {} /\ SemanticAliasesHit # {} /\ TypoAliasesHit = {})
           => /\ Item.method = "alias" /\ Item.confidence = 90
              /\ Item.normalized_key \in AliasKeys(SemanticAliasesHit)

\* A strict call left unmapped although a semantic alias matches the value.
C4_Witness ==
  /\ NonBlank /\ CallReturned /\ StrictCall
  /\ SemanticAliasesHit # {} /\ TermsHit = {} /\ TypoAliasesHit = {}
  /\ Item.method = "unmapped"

\* The legacy side of C4: the same kind of value resolved by the semantic alias.
C4_LegacyWitness ==
  /\ NonBlank /\ CallReturned /\ last.domain = "flavor_note"
  /\ config.flavor_note_mode = "legacy"
  /\ SemanticAliasesHit # {} /\ TermsHit = {} /\ TypoAliasesHit = {}
  /\ Item.method = "alias"

\* C5: a call that reports while the append to the unknown-queue log fails
\* (the directory cannot be created, the file cannot be opened or written)
\* still returns, with no exception.
C5_LogFailureSwallowed ==
  (CallDone /\ config.unknown_queue_path # None /\ LogFailed) => CallReturned

\* C6: a call whose webhook POST fails in any way (refused connection,
\* timeout, HTTP error status, malformed URL, connection dropped while the
\* response is read) still returns, with no exception.
C6_WebhookFailureSwallowed ==
  (CallDone /\ config.unknown_queue_webhook_url # None /\ last.hook \in HookFailures)
    => CallReturned

\* C7: with a log path and a webhook URL both configured, a call that
\* emits an event attempts both sinks: the POST is attempted whatever
\* happened to the append, and a failed POST leaves the appended line.
C7_SinksIndependent ==
  (CallDone /\ last.events # <<>> /\ config.unknown_queue_path # None
     /\ config.unknown_queue_webhook_url # None) =>
    /\ last.log # "skipped"
    /\ last.hook \notin {"skipped", "not_reached"}
    /\ (last.log = "appended" => last.lines = last.events)

\* No strategy of the chain of the call accepts the value.
NoStrategySucceeds ==
  /\ NonBlank /\ TermsHit = {}
  /\ IF StrictCall THEN TypoAliasesHit = {}
     ELSE AliasesHit("exact") \cup AliasesHit("regex") \cup AliasesHit("contains") = {}
  /\ ~BestRatioReaches(ActiveThreshold)

\* C8: when no strategy succeeds for a non-blank value the call does not
\* raise: it returns an item of method unmapped, confidence 0, reason
\* no_dictionary_match and no key, and emits exactly one event.
C8_UnmappedNeverRaises ==
  NoStrategySucceeds =>
    /\ CallReturned
    /\ Item.method = "unmapped" /\ Item.confidence = 0
    /\ Item.normalized_key = None /\ Item.reason.code = "no_dictionary_match"
    /\ Len(last.events) = 1

\* C9: a call that emits a low_confidence event (a match below
\* unknown_min_confidence) still returns the matched item, with the
\* method, key and confidence that the one event carries.
C9_LowConfidenceStillReturned ==
  (CallDone /\ last.events # <<>> /\ last.events[1].reason = "low_confidence") =>
    /\ Len(last.events) = 1
    /\ CallReturned
    /\ Item.method = last.events[1].method
    /\ Item.normalized_key = last.events[1].normalized_key
    /\ Item.confidence = last.events[1].confidence

\* The aliases that match the value and whose key is no Term of the domain.
DanglingAliasesHit ==
  {i \in AliasesHit("exact") \cup AliasesHit("regex") \cup AliasesHit("contains") :
     \A t \in DomainTermIds : terms[t].key # aliases[i].key}

\* C10: an alias whose key is no Term of its domain never makes a call
\* fail: normalize_one does not raise for a value that such an alias matches.
C10_DanglingAliasTolerated ==
  (NonBlank /\ DanglingAliasesHit # {}) => CallReturned

\* The tokens occur in value one after the other, from index from on.
RECURSIVE OccurInOrder(_, _, _)
OccurInOrder(tokens, value, from) ==
  \/ tokens = <<>>
  \/ \E i \in from..(Len(value) - Len(Head(tokens)) + 1) :
       /\ SubSeq(value, i, i + Len(Head(tokens)) - 1) = Head(tokens)
       /\ OccurInOrder(Tail(tokens), value, i + Len(Head(tokens)))

\* C12: every token that _split_multi_values returns is non-empty, has no
\* whitespace at either end and holds no separator; the tokens are in input
\* order; a non-blank input with no separator yields the one-element list
\* of the trimmed input.
C12_SplitterTokens ==
  last.op = "_split_multi_values" =>
    /\ \A i \in 1..Len(last.tokens) :
         /\ last.tokens[i] # <<>>
         /\ Strip(last.tokens[i]) = last.tokens[i]
         /\ \A k \in 1..Len(last.tokens[i]) : last.tokens[i][k] \notin Separators
    /\ OccurInOrder(last.tokens, last.value, 1)
    /\ (Strip(last.value) # <<>> /\ \A k \in 1..Len(last.value) : last.value[k] \notin Separators)
         => last.tokens = <<Strip(last.value)>>

\* The calls of normalize_one that the last operation made.
LastTrace ==
  IF last.op = "normalize_one" THEN <<last>>
  ELSE IF last.op \in {"_normalize_list", "normalize_bean_info"} THEN last.trace
  ELSE <<>>

\* The dedupe key of the claim: the normalized_key when present, otherwise
\* the normalized raw text.
KeyOf(item) ==
  IF item.normalized_key # None THEN item.normalized_key[1] ELSE _normalize_text(item.raw)

\* The positions of all whose key occurs at no earlier position.
FirstOccurrences(all) ==
  {p \in 1..Len(all) : \A q \in 1..(p - 1) : KeyOf(all[q]) # KeyOf(all[p])}

\* kept holds the items of all at the positions of FirstOccurrences, in order.
KeepsFirstOccurrences(kept, all) ==
  /\ Len(kept) = Cardinality(FirstOccurrences(all))
  /\ \A k \in 1..Len(kept) :
       \E p \in FirstOccurrences(all) :
         /\ Cardinality({q \in FirstOccurrences(all) : q <= p}) = k
         /\ kept[k] = all[p]

ListReturned == last.op = "_normalize_list" /\ last.outcome = "returned"

\* C11: the list that _normalize_list returns has no two items of the same
\* dedupe key; its items are the first occurrences, in the order of the
\* tokens of the expanded input, and nothing else.
C11_ListDedupe ==
  ListReturned =>
    /\ \A i, j \in 1..Len(last.items) :
         i # j => KeyOf(last.items[i]) # KeyOf(last.items[j])
    /\ Len(last.trace) = Len(Expand(last.values))
    /\ \A i \in 1..Len(last.trace) : last.trace[i].raw = Some(Expand(last.values)[i])
    /\ KeepsFirstOccurrences(last.items, ItemsOf(last.trace))

\* Two tokens of different raw text and the same key: the first is kept.
C11_Witness ==
  /\ ListReturned
  /\ Len(last.trace) = 2 /\ Len(last.items) = 1
  /\ last.trace[1].item[1].raw # last.trace[2].item[1].raw
  /\ last.items[1] = last.trace[1].item[1]

BeanReturned == last.op = "normalize_bean_info" /\ last.outcome = "returned"
BeanResultOf == last.result[1]
HasWarning(w) == \E i \in 1..Len(BeanResultOf.warnings) : BeanResultOf.warnings[i] = w
SomeUnmapped(items) == \E i \in 1..Len(items) : items[i].method = "unmapped"
IsUnmappedItem(item) == item # None /\ item[1].method = "unmapped"

\* C13: the result of normalize_bean_info has the warning <domain>_unmapped
\* exactly when the item of the single-value domain is unmapped, and
\* <domain>_partial_unmapped exactly when an item of the multi-value domain
\* is unmapped; an absent field gives no item and no warning.
C13_Warnings ==
  BeanReturned =>
    /\ HasWarning("process_unmapped") <=> IsUnmappedItem(BeanResultOf.process)
    /\ HasWarning("roast_level_unmapped") <=> IsUnmappedItem(BeanResultOf.roast_level)
    /\ HasWarning("country_unmapped") <=> IsUnmappedItem(BeanResultOf.country)
    /\ HasWarning("variety_partial_unmapped") <=> SomeUnmapped(BeanResultOf.varieties)
    /\ HasWarning("flavor_note_partial_unmapped") <=> SomeUnmapped(BeanResultOf.flavor_notes)
    /\ \A i \in 1..Len(BeanResultOf.warnings) :
         BeanResultOf.warnings[i] \in
           {"process_unmapped", "roast_level_unmapped", "country_unmapped",
            "variety_partial_unmapped", "flavor_note_partial_unmapped"}
    /\ last.bean.process = None => BeanResultOf.process = None
    /\ last.bean.roast_level = None => BeanResultOf.roast_level = None
    /\ (last.bean.origin = None \/ last.bean.origin[1].country = None)
         => BeanResultOf.country = None
    /\ last.bean.variety = None => BeanResultOf.varieties = <<>>
    /\ last.bean.flavor_notes = None => BeanResultOf.flavor_notes = <<>>

\* A bean whose process is mapped and whose varieties are one mapped and one
\* unmapped: no process warning, the variety warning.
C13_Witness ==
  /\ BeanReturned
  /\ BeanResultOf.process # None /\ BeanResultOf.process[1].method = "exact"
  /\ ~HasWarning("process_unmapped")
  /\ Len(BeanResultOf.varieties) = 2
  /\ \E i \in 1..2 : BeanResultOf.varieties[i].method # "unmapped"
  /\ HasWarning("variety_partial_unmapped") /\ HasWarning("country_unmapped")

\* raw is None, empty or made of whitespace only.
BlankRaw == last.raw = None \/ \A k \in 1..Len(last.raw[1]) : last.raw[1][k] \in Whitespace

\* C14: normalize_one with a raw value that is None, empty or whitespace
\* returns an item with reason empty_input, no key and confidence 0, and no
\* strategy ran: nothing of the dictionary shows in the item and no event
\* is emitted.
C14_BlankInput ==
  (CallDone /\ BlankRaw) =>
    /\ CallReturned
    /\ Item.reason.code = "empty_input"
    /\ Item.normalized_key = None /\ Item.confidence = 0
    /\ Item.normalized_label_en = None /\ Item.normalized_label_ko = None
    /\ Item.candidates = <<>>
    /\ last.events = <<>> /\ last.log = "skipped" /\ last.hook = "skipped"

\* A whitespace-only value given to an engine with both sinks configured.
C14_Witness ==
  /\ CallReturned /\ last.raw # None /\ Len(last.raw[1]) = 2 /\ BlankRaw
  /\ config.unknown_queue_path # None /\ config.unknown_queue_webhook_url # None
  /\ Item.reason.code = "empty_input"

EventFields ==
  {"ts", "domain", "raw", "confidence", "reason", "method", "normalized_key",
   "dictionary_version"}

\* C16: every event has exactly the eight fields; its dictionary_version is
\* the configured one; its domain, raw, confidence, method and key are
\* those of the item the call returns; the key of an unmapped event is
\* null; the line appended and the body POSTed are that same object.
C16_EventShape ==
  \A c \in 1..Len(LastTrace) :
    \A e \in 1..Len(LastTrace[c].events) :
      /\ DOMAIN LastTrace[c].events[e] = EventFields
      /\ LastTrace[c].events[e].dictionary_version = config.dictionary_version
      /\ LastTrace[c].events[e].method = "unmapped"
           => LastTrace[c].events[e].normalized_key = None
      /\ LastTrace[c].outcome = "returned" =>
           /\ LastTrace[c].events[e].domain = LastTrace[c].item[1].domain
           /\ LastTrace[c].events[e].raw = LastTrace[c].item[1].raw
           /\ LastTrace[c].events[e].confidence = LastTrace[c].item[1].confidence
           /\ LastTrace[c].events[e].method = LastTrace[c].item[1].method
           /\ LastTrace[c].events[e].normalized_key = LastTrace[c].item[1].normalized_key
      /\ \A l \in 1..Len(LastTrace[c].lines) : LastTrace[c].lines[l] = LastTrace[c].events[e]
      /\ \A p \in 1..Len(LastTrace[c].posted) : LastTrace[c].posted[p] = LastTrace[c].events[e]

\* A low_confidence event with a key, appended and POSTed.
C16_Witness ==
  \E c \in 1..Len(LastTrace) :
    /\ LastTrace[c].outcome = "returned"
    /\ Len(LastTrace[c].events) = 1
    /\ LastTrace[c].events[1].reason = "low_confidence"
    /\ LastTrace[c].events[1].normalized_key # None
    /\ LastTrace[c].lines = LastTrace[c].events
    /\ LastTrace[c].posted = LastTrace[c].events

RECURSIVE CountOf(_, _)
CountOf(trace, field) ==
  IF trace = <<>> THEN 0 ELSE Len(Head(trace)[field]) + CountOf(Tail(trace), field)

\* C19: delivery is at most once, with no retry: a call of normalize_one
\* builds at most one event; the event is appended to the log at most once
\* and POSTed at most once, whether the attempt fails or not; a failed
\* append leaves no line; and the log grows by the lines of the step's own
\* events only, so no event of an earlier step is tried again.
C19_AtMostOnce ==
  [][/\ \A c \in 1..Len(LastTrace') :
          /\ Len(LastTrace'[c].events) <= 1
          /\ Len(LastTrace'[c].lines) <= Len(LastTrace'[c].events)
          /\ Len(LastTrace'[c].posted) <= Len(LastTrace'[c].events)
          /\ LastTrace'[c].log \notin {"skipped", "appended"} =>
               LastTrace'[c].lines = <<>> /\ LastTrace'[c].posted = <<>>
     /\ Len(queue_file') = Len(queue_file) + CountOf(LastTrace', "lines")
     /\ SubSeq(queue_file', 1, Len(queue_file)) = queue_file]_vars

\* A second operation whose POST fails with an error that is caught: one
\* line, one attempt, and the first operation's line is in the log once.
C19_Witness ==
  /\ calls = 2 /\ Len(queue_file) = 2
  /\ \E c \in 1..Len(LastTrace) :
       /\ LastTrace[c].hook = "URLError" /\ LastTrace[c].outcome = "returned"
       /\ Len(LastTrace[c].events) = 1
       /\ Len(LastTrace[c].lines) = 1 /\ Len(LastTrace[c].posted) = 1

(***************************************************************************)
(* The append to the log by several callers at once.  _enqueue_unknown     *)
(* opens the file in mode "a", hands the line to f.write and leaves the    *)
(* with block, which closes the file.  The steps of different callers      *)
(* interleave; one write(2) on a descriptor opened with O_APPEND moves to  *)
(* the end of the file and transfers its bytes in one step.  Here the log  *)
(* is kept byte by byte, each byte with the event it belongs to.           *)
(***************************************************************************)
MaxWriters == 3
\* The size of the buffer between f.write and write(2), scaled down.
BufferSize == 8

\* json.dumps of a string: the quote, the backslash and the control
\* characters are escaped, so the text holds no raw newline.
JsonEscape(c) ==
  CASE c = "\n" -> <<"\\", "n">>
    [] c = "\"" -> <<"\\", "\"">>
    [] c = "\\" -> <<"\\", "\\">>
    [] OTHER -> <<c>>

RECURSIVE JsonChars(_)
JsonChars(text) == IF text = <<>> THEN <<>> ELSE JsonEscape(Head(text)) \o JsonChars(Tail(text))

\* json.dumps(payload, ensure_ascii=False): the text of the object.  Of the
\* eight fields only raw holds text of the caller; the byte "fields" stands
\* for the text of the others.
json_dumps(payload) ==
  <<"{", "fields", "\"">> \o JsonChars(payload.raw)
    \o <<"\"", "}">>

\* The bytes of an event, each with the event it belongs to.
BytesOf(chars, ev) == [i \in 1..Len(chars) |-> [ch |-> chars[i], ev |-> ev]]

\* A write that puts the bytes at the offset the descriptor had when it was
\* opened.
WriteAtOffset(file, offset, data) ==
  [i \in 1..(IF Len(file) > offset + Len(data) THEN Len(file) ELSE offset + Len(data)) |->
     IF i > offset /\ i <= offset + Len(data) THEN data[i - offset] ELSE file[i]]

\* write(2) on a descriptor opened with O_APPEND: the bytes go to the end
\* of the file, whatever the descriptor's offset.
os_write(file, offset, data) == file \o data

Writer(pc, line, offset, buffer) ==
  [pc |-> pc, line |-> line, offset |-> offset, buffer |-> buffer]

AppendRaws == {<<"a">>, <<"\n", "a">>}

InitAppend ==
  /\ terms = <<>>
  /\ aliases = <<>>
  /\ config = Config("strict", 86, 94, None, Some("path"), None)
  /\ term_index = BuildTermIndex(terms)
  /\ calls = 0
  /\ last = NoCall
  /\ queue_file = <<>>
  /\ history = <<>>
  /\ writers = [w \in 1..MaxWriters |-> Writer("idle", <<>>, 0, <<>>)]
  /\ engine = "ready"
  /\ provider = None

\* A caller reaches _enqueue_unknown: the payload and its line are built.
BuildLine(w, raw) ==
  /\ writers[w].pc = "idle"
  /\ writers' = [writers EXCEPT ![w] =
       Writer("built",
              BytesOf(json_dumps(Payload("variety", raw, 0, "no_dictionary_match", "unmapped",
                                         None)) \o <<"\n">>, w),
              0, <<>>)]
  /\ calls' = calls + 1
  /\ UNCHANGED <<terms, aliases, config, term_index, last, queue_file, history, engine, provider>>

\* path.open("a", encoding="utf-8"): the descriptor starts at the end.
OpenAppend(w) ==
  /\ writers[w].pc = "built"
  /\ writers' = [writers EXCEPT ![w].pc = "open", ![w].offset = Len(queue_file)]
  /\ UNCHANGED <<terms, aliases, config, term_index, calls, last, queue_file, history, engine,
                 provider>>

\* f.write(line): a line longer than the buffer goes to write(2) at once,
\* a shorter one waits in the buffer.
WriteLine(w) ==
  /\ writers[w].pc = "open"
  /\ IF Len(writers[w].line) > BufferSize
     THEN /\ queue_file' = os_write(queue_file, writers[w].offset, writers[w].line)
          /\ writers' = [writers EXCEPT ![w].pc = "written"]
     ELSE /\ queue_file' = queue_file
          /\ writers' = [writers EXCEPT ![w].pc = "written", ![w].buffer = writers[w].line]
  /\ UNCHANGED <<terms, aliases, config, term_index, calls, last, history, engine, provider>>

\* The end of the with block: close flushes the buffer with one write(2).
CloseFile(w) ==
  /\ writers[w].pc = "written"
  /\ queue_file' = IF writers[w].buffer = <<>> THEN queue_file
                   ELSE os_write(queue_file, writers[w].offset, writers[w].buffer)
  /\ writers' = [writers EXCEPT ![w].pc = "closed", ![w].buffer = <<>>]
  /\ UNCHANGED <<terms, aliases, config, term_index, calls, last, history, engine, provider>>

NextAppend ==
  \E w \in 1..MaxWriters :
    \/ \E raw \in AppendRaws : BuildLine(w, raw)
    \/ OpenAppend(w)
    \/ WriteLine(w)
    \/ CloseFile(w)

SpecAppend == InitAppend /\ [][NextAppend]_vars

\* The positions of the newlines of the log, and the line that ends at one.
LineEnds == {i \in 1..Len(queue_file) : queue_file[i].ch = "\n"}
LineStart(e) == Cardinality({i \in 1..(e - 1) : \E j \in i..(e - 1) : j \in LineEnds}) + 1
LineAt(e) == SubSeq(queue_file, LineStart(e), e)

\* The callers whose line has gone to write(2).
Flushed ==
  {w \in DOMAIN writers :
     writers[w].pc = "closed" \/ (writers[w].pc = "written" /\ writers[w].buffer = <<>>)}

\* C17: in every interleaving of the callers' steps the log consists of
\* whole lines only; every line is the complete line of one event, with no
\* byte of another; and every event whose line was written has exactly one
\* line.
C17_AtomicAppend ==
  /\ queue_file # <<>> => Len(queue_file) \in LineEnds
  /\ \A e \in LineEnds : \E w \in Flushed : LineAt(e) = writers[w].line
  /\ \A w \in Flushed : Cardinality({e \in LineEnds : LineAt(e) = writers[w].line}) = 1
  /\ Cardinality(LineEnds) = Cardinality(Flushed)

\* Every caller has closed the file, and the line of one of them, whose raw
\* text holds a newline, lies behind a line that was written after that
\* caller had opened the file.
C17_Witness ==
  /\ \A w \in DOMAIN writers : writers[w].pc = "closed"
  /\ Cardinality(LineEnds) = MaxWriters
  /\ \E w \in DOMAIN writers, e \in LineEnds :
       /\ LineAt(e) = writers[w].line
       /\ LineStart(e) > writers[w].offset + 1
       /\ \E i \in 1..Len(writers[w].line) : writers[w].line[i].ch = "n"

(***************************************************************************)
(* Construction: DictionaryRepository.__init__ loads the terms and the     *)
(* aliases of the version, NormalizationEngine.__init__ builds the         *)
(* repository and the term index.  What the package holds for a version    *)
(* is, for each of the two files: a Python module with the attribute, a    *)
(* module without it, no module and a JSON file that is a list of items,   *)
(* an empty JSON object, text that is no JSON, bytes that are no UTF-8, a  *)
(* list with an item of the wrong fields, a file that cannot be read, or   *)
(* nothing.                                                                *)
(***************************************************************************)
DataStates ==
  {"module", "no_attribute", "json", "empty_object", "bad_json", "bad_encoding", "bad_item",
   "unreadable", "missing"}

Loaded(data) == [exc |-> "none", data |-> data]
LoadRaised(exc) == [exc |-> exc, data |-> <<>>]

\* import_module(...) in the try: ModuleNotFoundError is caught, and the
\* attribute is read from a module that was found.
FromModule(state, data) ==
  IF state = "module" THEN Loaded(data) ELSE LoadRaised("AttributeError")

\* The except branch: files(...).joinpath(version, name).read_text, then
\* json.loads, then one Term or Alias per item.
FromJson(state, data) ==
  CASE state = "json" -> Loaded(data)
    [] state = "empty_object" -> Loaded(<<>>)
    [] state = "bad_json" -> LoadRaised("JSONDecodeError")
    [] state = "bad_encoding" -> LoadRaised("UnicodeDecodeError")
    [] state = "bad_item" -> LoadRaised("TypeError")
    [] state = "unreadable" -> LoadRaised("PermissionError")
    [] OTHER -> LoadRaised("FileNotFoundError")

_load_terms(state, data) ==
  IF state \in {"module", "no_attribute"} THEN FromModule(state, data)
  ELSE FromJson(state, data)

_load_aliases(state, data) ==
  IF state \in {"module", "no_attribute"} THEN FromModule(state, data)
  ELSE FromJson(state, data)

\* DictionaryRepository.__init__: the terms, then the aliases; an exception
\* of either load leaves the constructor, and the object is not returned.
RepositoryOf(loaded_terms, loaded_aliases) ==
  IF loaded_terms.exc # "none" THEN [exc |-> loaded_terms.exc, terms |-> <<>>, aliases |-> <<>>]
  ELSE IF loaded_aliases.exc # "none"
       THEN [exc |-> loaded_aliases.exc, terms |-> <<>>, aliases |-> <<>>]
       ELSE [exc |-> "none", terms |-> loaded_terms.data, aliases |-> loaded_aliases.data]

DictionaryRepository(terms_state, aliases_state) ==
  RepositoryOf(_load_terms(terms_state, BeanTerms), _load_aliases(aliases_state, BeanAliases))

InitLoad ==
  /\ terms = <<>>
  /\ aliases = <<>>
  /\ config \in BeanConfigs
  /\ term_index = BuildTermIndex(<<>>)
  /\ calls = 0
  /\ last = NoCall
  /\ queue_file = <<>>
  /\ history = <<>>
  /\ writers = <<>>
  /\ engine = "absent"
  /\ provider = None

ConstructRecord(terms_state, aliases_state, repo) ==
  [op |-> "__init__", terms_data |-> terms_state, aliases_data |-> aliases_state,
   outcome |-> IF repo.exc = "none" THEN "returned" ELSE "raised", exc |-> repo.exc]

\* NormalizationEngine(config): with an exception no object is returned.
Construct(terms_state, aliases_state) ==
  /\ engine = "absent"
  /\ calls < MaxOps
  /\ calls' = calls + 1
  /\ last' = ConstructRecord(terms_state, aliases_state,
                             DictionaryRepository(terms_state, aliases_state))
  /\ terms' = DictionaryRepository(terms_state, aliases_state).terms
  /\ aliases' = DictionaryRepository(terms_state, aliases_state).aliases
  /\ term_index' = BuildTermIndex(terms')
  /\ engine' = IF last'.outcome = "returned" THEN "ready" ELSE "absent"
  /\ UNCHANGED <<config, queue_file, history, writers, provider>>

\* A call on the engine that construction returned.
CallConstructed(domain, raw) ==
  /\ engine = "ready"
  /\ calls < MaxOps
  /\ calls' = calls + 1
  /\ NormalizeOneStep(domain, raw)

NextLoad ==
  \/ \E terms_state, aliases_state \in DataStates : Construct(terms_state, aliases_state)
  \/ \E domain \in OneDomains, raw \in OneRaws : CallConstructed(domain, raw)

SpecLoad == InitLoad /\ [][NextLoad]_vars

\* The data of a version is missing or unreadable.
MissingOrUnreadable(state) == state \in {"missing", "unreadable", "bad_encoding", "bad_json"}

\* C20: constructing the repository or the engine for a version whose data
\* is missing or unreadable fails with DictionaryNotFound, and no object is
\* returned.
C20_DictionaryNotFound ==
  (/\ last.op = "__init__"
   /\ MissingOrUnreadable(last.terms_data) \/ MissingOrUnreadable(last.aliases_data))
    => /\ last.outcome = "raised"
       /\ last.exc = "DictionaryNotFound"
       /\ engine = "absent"

(***************************************************************************)
(* Construction with a configuration given by the caller.                  *)
(* NormalizationConfig is a frozen dataclass with no check of its fields,  *)
(* and NormalizationEngine.__init__ stores it as it is.  The thresholds    *)
(* are in hundredths: 150 stands for 1.5, -50 for -0.5.                    *)
(***************************************************************************)
\* A threshold or floor in [0, 1].
InUnitRange(hundredths) == hundredths >= 0 /\ hundredths <= 100

ConfigInRange(cfg) ==
  /\ InUnitRange(cfg.fuzzy_threshold)
  /\ InUnitRange(cfg.flavor_note_fuzzy_threshold)
  /\ cfg.unknown_min_confidence # None => InUnitRange(cfg.unknown_min_confidence[1])

\* The defaults, and configurations with one field out of range.
GivenConfigs ==
  {Config("strict", 86, 94, None, None, None)}
    \cup {Config("strict", f, 94, None, None, None) : f \in {150, -50}}
    \cup {Config("strict", 86, f, None, None, None) : f \in {150, -50}}
    \cup {Config("strict", 86, 94, Some(c), Some("path"), None) : c \in {88, 200, -100}}

InitConfig ==
  /\ terms = <<>>
  /\ aliases = <<>>
  /\ config \in GivenConfigs
  /\ term_index = BuildTermIndex(<<>>)
  /\ calls = 0
  /\ last = NoCall
  /\ queue_file = <<>>
  /\ history = <<>>
  /\ writers = <<>>
  /\ engine = "absent"
  /\ provider = None

\* The raw values of the calls on an engine built from a given
\* configuration: an exact match, fuzzy candidates and no match.
ConfigRaws == {Some(<<"a", "b">>), Some(<<"a">>), Some(<<"a", "a">>), Some(<<"-">>)}

NextConfig ==
  \/ \E data \in {"module", "missing"} : Construct(data, "module")
  \/ \E domain \in {"variety", "flavor_note"}, raw \in ConfigRaws : CallConstructed(domain, raw)

SpecConfig == InitConfig /\ [][NextConfig]_vars

\* C21: constructing an engine with a threshold or a floor outside [0, 1]
\* fails with ConfigurationError, and no engine serves a call with such a
\* configuration.
C21_ConfigurationError ==
  /\ (last.op = "__init__" /\ ~ConfigInRange(config))
       => (last.outcome = "raised" /\ last.exc = "ConfigurationError" /\ engine = "absent")
  /\ last.op = "normalize_one" => ConfigInRange(config)

(***************************************************************************)
(* GoogleVisionOCRProvider (src/src/bean_lens/providers/                   *)
(* google_vision_ocr.py): extract and get_extraction_metadata.  The        *)
(* provider keeps _last_parser between calls.  The environment gives each  *)
(* call the fate of the image, of the OCR request and of the LLM request.  *)
(***************************************************************************)
MaxExtracts == 3

\* The provider after __init__: _last_parser is "ocr_heuristic"; the LLM is
\* enabled with a client, disabled with a client, or disabled with none
\* (_init_llm_client disables it when it cannot build a client).
Provider(last_parser, llm_enabled, llm_client) ==
  [_last_parser |-> last_parser, llm_enabled |-> llm_enabled, llm_client |-> llm_client]

ConstructedProviders ==
  {Provider("ocr_heuristic", TRUE, TRUE), Provider("ocr_heuristic", FALSE, TRUE),
   Provider("ocr_heuristic", FALSE, FALSE)}

\* _load_image raises ImageError or returns the image.
ImageFates == {"ok", "ImageError"}
\* _extract_text raises one of the three errors or returns the text, which
\* is empty when the response holds no annotation.
OcrFates == {"text", "empty", "RateLimitError", "AuthenticationError", "BeanLensError"}
\* _extract_structured_with_llm returns the parsed result or raises.
LlmFates == {"ok", "failed"}

\* What a call of extract gives: the exception or the result with the
\* parser that produced it, whether the LLM was tried, and _last_parser
\* after the call.
ExtractRaised(exc, last_parser) ==
  [outcome |-> "raised", exc |-> exc, parsed_by |-> "none", llm_attempted |-> FALSE,
   _last_parser |-> last_parser]

ExtractReturned(parsed_by, llm_attempted, last_parser) ==
  [outcome |-> "returned", exc |-> "none", parsed_by |-> parsed_by,
   llm_attempted |-> llm_attempted, _last_parser |-> last_parser]

\* if self._last_parser not in {"ocr_text_llm", "heuristic_fallback"}:
\*     self._last_parser = "ocr_heuristic"
\* return self._parse_text(raw_text)
HeuristicParse(last_parser, llm_attempted) ==
  ExtractReturned("_parse_text", llm_attempted,
                  IF last_parser \notin {"ocr_text_llm", "heuristic_fallback"}
                  THEN "ocr_heuristic" ELSE last_parser)

\* if self.llm_enabled and self.llm_client and raw_text: the LLM parse, and
\* after its exception the heuristic parse with "heuristic_fallback".
ParseText(p, raw_text_empty, llm_fate) ==
  IF p.llm_enabled /\ p.llm_client /\ ~raw_text_empty
  THEN IF llm_fate = "ok" THEN ExtractReturned("_extract_structured_with_llm", TRUE, "ocr_text_llm")
       ELSE HeuristicParse("heuristic_fallback", TRUE)
  ELSE HeuristicParse(p._last_parser, FALSE)

extract(p, image_fate, ocr_fate, llm_fate) ==
  IF image_fate # "ok" THEN ExtractRaised("ImageError", p._last_parser)
  ELSE IF ocr_fate \notin {"text", "empty"} THEN ExtractRaised(ocr_fate, p._last_parser)
  ELSE ParseText(p, ocr_fate = "empty", llm_fate)

get_extraction_metadata(p) == [provider |-> "ocr", parser |-> p._last_parser]

InitOcr ==
  /\ terms = <<>>
  /\ aliases = <<>>
  /\ config = Config("strict", 86, 94, None, None, None)
  /\ term_index = BuildTermIndex(<<>>)
  /\ calls = 0
  /\ last = NoCall
  /\ queue_file = <<>>
  /\ history = <<>>
  /\ writers = <<>>
  /\ engine = "absent"
  /\ provider \in ConstructedProviders

ExtractRecord(image_fate, ocr_fate, llm_fate, r) ==
  [op |-> "extract", image |-> image_fate, ocr |-> ocr_fate, llm |-> llm_fate,
   outcome |-> r.outcome, exc |-> r.exc, parsed_by |-> r.parsed_by,
   llm_attempted |-> r.llm_attempted]

Extract(image_fate, ocr_fate, llm_fate) ==
  /\ calls < MaxExtracts
  /\ calls' = calls + 1
  /\ last' = ExtractRecord(image_fate, ocr_fate, llm_fate,
                           extract(provider, image_fate, ocr_fate, llm_fate))
  /\ provider' = [provider EXCEPT !._last_parser =
                    extract(provider, image_fate, ocr_fate, llm_fate)._last_parser]
  /\ UNCHANGED <<terms, aliases, config, term_index, queue_file, history, writers, engine>>

NextOcr ==
  \E image_fate \in ImageFates, ocr_fate \in OcrFates, llm_fate \in LlmFates :
    Extract(image_fate, ocr_fate, llm_fate)

SpecOcr == InitOcr /\ [][NextOcr]_vars

\* The parser that produced the result of the last call of extract.
ParserOfResult ==
  IF last.parsed_by = "_extract_structured_with_llm" THEN "ocr_text_llm"
  ELSE IF last.llm_attempted THEN "heuristic_fallback"
  ELSE "ocr_heuristic"

\* C22: after every call of extract that returns, get_extraction_metadata
\* reports the parser that produced that call's result.
C22_MetadataOfLastCall ==
  (last.op = "extract" /\ last.outcome = "returned")
    => get_extraction_metadata(provider).parser = ParserOfResult

\* C23: in strict mode a flavor_note call that returns resolves by exact,
\* by an exact alias of kind typo, or by fuzzy, and by nothing else: the
\* method is never regex, an alias result has the confidence and the key
\* of a typo exact alias, and the result is fuzzy exactly when no Term text
\* and no typo alias equals the value and the best ratio reaches
\* flavor_note_fuzzy_threshold, whatever fuzzy_threshold is.
C23_StrictStrategySet ==
  (NonBlank /\ CallReturned /\ StrictCall) =>
    /\ Item.method \in {"exact", "alias", "fuzzy", "unmapped"}
    /\ Item.method = "exact" <=> TermsHit # {}
    /\ Item.method = "alias" <=> (TermsHit = {} /\ TypoAliasesHit # {})
    /\ Item.method = "alias" =>
         Item.confidence = AliasConfidence /\ Item.normalized_key \in AliasKeys(TypoAliasesHit)
    /\ Item.method = "fuzzy" <=>
         (/\ TermsHit = {} /\ TypoAliasesHit = {}
          /\ BestRatioReaches(config.flavor_note_fuzzy_threshold))

\* A strict call whose value a regex alias and a contains alias match and
\* whose best ratio reaches fuzzy_threshold but not
\* flavor_note_fuzzy_threshold: unmapped.
C23_Witness ==
  /\ NonBlank /\ CallReturned /\ StrictCall
  /\ AliasesHit("regex") # {} /\ AliasesHit("contains") # {}
  /\ TermsHit = {} /\ TypoAliasesHit = {}
  /\ BestRatioReaches(config.fuzzy_threshold)
  /\ ~BestRatioReaches(config.flavor_note_fuzzy_threshold)
  /\ Item.method = "unmapped"

\* The other side of C23: a strict call resolved by fuzzy.
C23_FuzzyWitness ==
  /\ NonBlank /\ CallReturned /\ StrictCall
  /\ Item.method = "fuzzy" /\ BestRatioReaches(config.flavor_note_fuzzy_threshold)

\* The first Term in load order, of the called domain, one of whose texts
\* normalizes to the value.
FirstTermHit == terms[SetMin(TermsHit)]

\* C24: a call with a non-blank value that returns is resolved by the exact
\* strategy if and only if the normalized value equals the normalized key,
\* label_en or label_ko of a Term of the domain, and the item then carries
\* the first such Term in load order.
C24_ExactFirstInLoadOrder ==
  (NonBlank /\ CallReturned) =>
    /\ Item.method = "exact" <=> TermsHit # {}
    /\ TermsHit # {} =>
         /\ Item.normalized_key = Some(FirstTermHit.key)
         /\ Item.normalized_label_en = Some(FirstTermHit.label_en)
         /\ Item.normalized_label_ko = Some(FirstTermHit.label_ko)
         /\ Item.confidence = ExactConfidence

\* Two Terms of the domain match the value, through different fields, and
\* the item carries the key of the first, which is not that of the second.
C24_Witness ==
  /\ NonBlank /\ CallReturned
  /\ Cardinality(TermsHit) = 2
  /\ Item.method = "exact"
  /\ Item.normalized_key = Some(FirstTermHit.key)
  /\ Item.normalized_key # Some(terms[SetMax(TermsHit)].key)
  /\ NormValue # _normalize_text(terms[SetMax(TermsHit)].key)

(***************************************************************************)
(* The fuzzy strategy applied on its own: _match_fuzzy over dictionaries   *)
(* with ties and with texts that share no character with the value, and    *)
(* thresholds down to 0.0.                                                 *)
(***************************************************************************)
FuzzyTermPool(focus) ==
  { Term(focus, <<"a", "b">>, <<"a", "-", "b">>, <<"a", "b", "a", "b">>),
    Term(focus, <<"b", "a">>, <<"b", "-", "b">>, <<"a", "b">>),
    Term(focus, <<"b">>, <<"b">>, <<"B">>) }

FuzzyThresholds == {0, 50, 80}

FuzzyConfigs(focus) ==
  IF focus = "flavor_note"
  THEN {Config(m, 50, g, None, None, None) : m \in {"strict", "legacy"}, g \in FuzzyThresholds}
  ELSE {Config("strict", f, 94, None, None, None) : f \in FuzzyThresholds}

\* The values normalize_one hands to the strategies are stripped and not empty.
FuzzyRaws == {s \in UNION {[1..n -> {"a", "B", "-"}] : n \in 1..MaxLen} : Strip(s) = s}

InitFuzzy ==
  /\ \E focus \in {"process", "flavor_note"} :
       /\ terms \in Lists(FuzzyTermPool(focus), MaxTerms)
       /\ config \in FuzzyConfigs(focus)
  /\ aliases = <<>>
  /\ term_index = BuildTermIndex(terms)
  /\ calls = 0
  /\ last = NoCall
  /\ queue_file = <<>>
  /\ history = <<>>
  /\ writers = <<>>
  /\ engine = "ready"
  /\ provider = None

\* The threshold argument of the call sites: the strict flavor-note chain
\* passes flavor_note_fuzzy_threshold, the default chain passes none.
ThresholdArgument(domain) ==
  IF _is_strict_flavor_note(domain) THEN Some(config.flavor_note_fuzzy_threshold) ELSE None

MatchFuzzy(domain, raw) ==
  /\ calls < MaxCalls
  /\ calls' = calls + 1
  /\ last' = [op |-> "_match_fuzzy", domain |-> domain, raw |-> Some(raw),
              threshold |-> ThresholdArgument(domain),
              match |-> _match_fuzzy(domain, raw, ThresholdArgument(domain))]
  /\ UNCHANGED <<terms, aliases, config, term_index, queue_file, history, writers,
                 engine, provider>>

NextFuzzy == \E domain \in {"process", "flavor_note"}, raw \in FuzzyRaws : MatchFuzzy(domain, raw)

SpecFuzzy == InitFuzzy /\ [][NextFuzzy]_vars

FuzzyDone == last.op = "_match_fuzzy"

ResolvedThreshold ==
  IF last.threshold # None THEN last.threshold[1] ELSE config.fuzzy_threshold

\* The greatest ratio of a Term: over its key, label_en and label_ko.
ReachesBest(i) ==
  \E r \in {Ratio(NormValue, _normalize_text(terms[i].key)),
            Ratio(NormValue, _normalize_text(terms[i].label_en)),
            Ratio(NormValue, _normalize_text(terms[i].label_ko))} : ~RatioGT(BestRatio, r)

\* The first Term in load order that achieves the maximum.
FirstBest == terms[SetMin({i \in DomainTermIds : ReachesBest(i)})]

Clamped(hundredths) ==
  IF hundredths < 70 THEN 70 ELSE IF hundredths > 85 THEN 85 ELSE hundredths

AcceptsFirstBest ==
  /\ last.match.kind = "match"
  /\ last.match.method = "fuzzy"
  /\ last.match.key = FirstBest.key
  /\ last.match.label_en = FirstBest.label_en
  /\ last.match.label_ko = FirstBest.label_ko
  /\ last.match.confidence = Clamped(Round2(BestRatio))
  /\ last.match.reason = [code |-> "fuzzy_score", score |-> Round2(BestRatio)]

\* C25: the fuzzy strategy takes the maximum ratio over the normalized key,
\* label_en and label_ko of every Term of the domain; it accepts exactly
\* when the maximum is greater than or equal to the active threshold, with
\* the first Term in load order that achieves the maximum, the confidence
\* clamp(round(ratio, 2), 0.70, 0.85) and the reason fuzzy_score=<ratio>;
\* otherwise it yields no match.
C25_FuzzyMaximum ==
  FuzzyDone =>
    IF DomainTermIds # {} /\ RatioGE(BestRatio, ResolvedThreshold)
    THEN AcceptsFirstBest
    ELSE last.match.kind = "none"

\* The same with the acceptance limited to a positive maximum: best_term is
\* set only by a ratio greater than the initial 0.0.
FuzzyMaximumWhenPositive ==
  FuzzyDone =>
    IF DomainTermIds # {} /\ BestRatio[1] > 0 /\ RatioGE(BestRatio, ResolvedThreshold)
    THEN AcceptsFirstBest
    ELSE last.match.kind = "none"

\* A tie at the maximum between two Terms of the domain, accepted.
FuzzyTieAccepted ==
  /\ FuzzyDone /\ last.match.kind = "match"
  /\ Cardinality({i \in DomainTermIds : ReachesBest(i)}) = 2

(***************************************************************************)
(* _normalize_text applied on its own to every string of the alphabet up   *)
(* to MaxLen characters.                                                   *)
(***************************************************************************)
TextAlphabet == {"a", "B", "wide_a", " ", "\n", "-", "_", "!"}
Texts == UNION {[1..n -> TextAlphabet] : n \in 0..MaxLen}

InitNormalize ==
  /\ terms = <<>>
  /\ aliases = <<>>
  /\ config = Config("strict", 86, 94, None, None, None)
  /\ term_index = BuildTermIndex(terms)
  /\ calls = 0
  /\ last = NoCall
  /\ queue_file = <<>>
  /\ history = <<>>
  /\ writers = <<>>
  /\ engine = "ready"
  /\ provider = None

NormalizeText(value) ==
  /\ calls < MaxCalls
  /\ calls' = calls + 1
  /\ last' = [op |-> "_normalize_text", value |-> value, text |-> _normalize_text(value)]
  /\ UNCHANGED <<terms, aliases, config, term_index, queue_file, history, writers,
                 engine, provider>>

NextNormalize == \E value \in Texts : NormalizeText(value)

SpecNormalize == InitNormalize /\ [][NextNormalize]_vars

TextDone == last.op = "_normalize_text"

Idempotent == _normalize_text(last.text) = last.text
NoOuterWhitespace == Strip(last.text) = last.text
NoSpaceRun ==
  \A i \in 1..(Len(last.text) - 1) : ~(last.text[i] = " " /\ last.text[i + 1] = " ")
OnlyAlnumOrSpace ==
  \A i \in 1..Len(last.text) : last.text[i] \in LowerLetters \cup UpperLetters \cup {" "}

\* C26: _normalize_text is idempotent, and its result has no leading or
\* trailing whitespace, no run of more than one space and no character that
\* is neither alphanumeric nor a space.
C26_NormalizeText ==
  TextDone => Idempotent /\ NoOuterWhitespace /\ NoSpaceRun /\ OnlyAlnumOrSpace

\* The part of it that holds of every result.
NormalizedCharacters == TextDone => NoSpaceRun /\ OnlyAlnumOrSpace

\* The Terms of the called domain that carry the item's key and labels.
TermsOfItem ==
  {i \in DomainTermIds :
     /\ Item.normalized_key = Some(terms[i].key)
     /\ Item.normalized_label_en = Some(terms[i].label_en)
     /\ Item.normalized_label_ko = Some(terms[i].label_ko)}

\* C27: every item normalize_one returns is well formed: normalized_key is
\* present exactly when the method is not unmapped; when present, the key
\* and both labels are those of a Term of the repository in the requested
\* domain and candidates is the one-element list of that key; when absent,
\* both labels are absent and candidates is empty.
C27_WellFormedItem ==
  CallReturned =>
    /\ Item.domain = last.domain
    /\ (Item.normalized_key # None) <=> (Item.method # "unmapped")
    /\ Item.normalized_key # None =>
         /\ TermsOfItem # {}
         /\ Item.candidates = <<Item.normalized_key[1]>>
    /\ Item.normalized_key = None =>
         /\ Item.normalized_label_en = None
         /\ Item.normalized_label_ko = None
         /\ Item.candidates = <<>>

\* An alias resolved to its Term while a Term of another domain is loaded.
C27_Witness ==
  /\ CallReturned
  /\ Item.method \in {"alias", "regex"}
  /\ TermsOfItem # {}
  /\ \E i \in 1..Len(terms) : terms[i].domain # last.domain

\* A returned item with no key.
C27_UnmappedWitness ==
  CallReturned /\ NonBlank /\ Item.method = "unmapped" /\ DomainTermIds # {}

\* What a call emitted: the events built, the lines appended, the POSTs sent.
NothingEmitted == last.events = <<>> /\ last.lines = <<>> /\ last.posted = <<>>

\* A strategy matched with a confidence the floor, if any, does not exceed.
MatchedAtOrAboveFloor ==
  /\ CallReturned
  /\ Item.method # "unmapped"
  /\ \/ config.unknown_min_confidence = None
     \/ Item.confidence >= config.unknown_min_confidence[1]

\* C28: normalize_one emits no UnknownQueueEvent when raw is blank, nor when
\* a strategy matches and either unknown_min_confidence is not set or the
\* match's confidence is at least that value; and it never emits more than
\* one event per call.
C28_NoSpuriousEvent ==
  CallDone =>
    /\ Len(last.events) <= 1 /\ Len(last.lines) <= 1 /\ Len(last.posted) <= 1
    /\ BlankRaw => NothingEmitted
    /\ MatchedAtOrAboveFloor => NothingEmitted

\* A match with a confidence equal to the floor, with both sinks configured.
C28_Witness ==
  /\ MatchedAtOrAboveFloor
  /\ config.unknown_min_confidence = Some(Item.confidence)
  /\ config.unknown_queue_path # None
  /\ config.unknown_queue_webhook_url = Some("valid")

\* A blank call with a floor and both sinks configured.
C28_BlankWitness ==
  /\ CallReturned /\ BlankRaw /\ last.raw # None /\ last.raw[1] # <<>>
  /\ config.unknown_min_confidence # None
  /\ config.unknown_queue_path # None
  /\ config.unknown_queue_webhook_url = Some("valid")

\* A call that emitted its one event to both sinks.
C28_EventWitness ==
  CallReturned /\ Len(last.events) = 1 /\ Len(last.lines) = 1 /\ Len(last.posted) = 1

\* A call of the trace in the domain emitted an event with reason
\* no_dictionary_match.
ReportedNoMatch(domain) ==
  \E k \in 1..Len(last.trace) :
    /\ last.trace[k].domain = domain
    /\ \E e \in 1..Len(last.trace[k].events) :
         /\ last.trace[k].events[e].domain = domain
         /\ last.trace[k].events[e].reason = "no_dictionary_match"

\* The calls of the trace that returned an unmapped item.
UnmappedCalls ==
  {k \in 1..Len(last.trace) :
     last.trace[k].outcome = "returned" /\ last.trace[k].item[1].method = "unmapped"}

\* C29: whenever the warnings of normalize_bean_info contain
\* <domain>_unmapped or <domain>_partial_unmapped, an event with reason
\* no_dictionary_match for that domain was emitted during the same call;
\* no warning is produced for a value that was not also reported.
C29_WarningImpliesEvent ==
  BeanReturned =>
    /\ \A domain \in {"process", "roast_level", "country"} :
         HasWarning(domain \o "_unmapped") => ReportedNoMatch(domain)
    /\ \A domain \in {"variety", "flavor_note"} :
         HasWarning(domain \o "_partial_unmapped") => ReportedNoMatch(domain)
    /\ \A k \in UnmappedCalls : last.trace[k].events # <<>>

\* The same for the beans whose single fields are not blank.
WarningImpliesEventWhenNotBlank ==
  (BeanReturned /\ \A k \in UnmappedCalls : Strip(last.trace[k].raw[1]) # <<>>)
    => C29_WarningImpliesEvent

\* A warning together with the event of its value.
WarningWithEvent ==
  BeanReturned /\ HasWarning("variety_partial_unmapped") /\ ReportedNoMatch("variety")

\* The token at position k of the trace is reported: its item is unmapped
\* or its confidence is below the floor.
TokenReported(k) ==
  \/ last.trace[k].item[1].method = "unmapped"
  \/ /\ config.unknown_min_confidence # None
     /\ last.trace[k].item[1].confidence < config.unknown_min_confidence[1]

\* The events of the first n calls of the trace, in the order emitted.
RECURSIVE EventsUpTo(_)
EventsUpTo(n) == IF n = 0 THEN <<>> ELSE EventsUpTo(n - 1) \o last.trace[n].events

\* The positions of the reported tokens among the first n, in order.
RECURSIVE ReportedUpTo(_)
ReportedUpTo(n) ==
  IF n = 0 THEN <<>>
  ELSE IF TokenReported(n) THEN ReportedUpTo(n - 1) \o <<n>> ELSE ReportedUpTo(n - 1)

ListEvents == EventsUpTo(Len(last.trace))
ReportedTokens == ReportedUpTo(Len(last.trace))

\* The items returned that are unmapped or below the floor.
ReportedItems ==
  {i \in 1..Len(last.items) :
     \/ last.items[i].method = "unmapped"
     \/ /\ config.unknown_min_confidence # None
        /\ last.items[i].confidence < config.unknown_min_confidence[1]}

\* C30: _normalize_list emits its events in the order of the expanded
\* tokens, one per token that is unmapped or below the floor, the tokens
\* that deduplication drops included; the events can outnumber the
\* unmapped or low-confidence items returned.
C30_EventPerToken ==
  ListReturned =>
    /\ Len(last.trace) = Len(Expand(last.values))
    /\ Len(ListEvents) = Len(ReportedTokens)
    /\ \A j \in 1..Len(ListEvents) :
         /\ ListEvents[j].domain = last.domain
         /\ ListEvents[j].raw = Expand(last.values)[ReportedTokens[j]]
         /\ ListEvents[j].reason =
              IF last.trace[ReportedTokens[j]].item[1].method = "unmapped"
              THEN "no_dictionary_match" ELSE "low_confidence"
    /\ Len(ListEvents) >= Cardinality(ReportedItems)

\* Two tokens of the same key, both reported, one item returned.
C30_Witness ==
  /\ ListReturned
  /\ Len(ListEvents) = 2
  /\ Len(last.items) = 1
  /\ Cardinality(ReportedItems) = 1

\* A token below the floor followed by an unmapped token, in this order.
C30_OrderWitness ==
  /\ ListReturned
  /\ Len(ListEvents) = 2
  /\ ListEvents[1].reason = "low_confidence"
  /\ ListEvents[2].reason = "no_dictionary_match"
  /\ ListEvents[1].raw # ListEvents[2].raw
====
